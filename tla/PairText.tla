------------------------------- MODULE PairText -------------------------------
(***************************************************************************)
(* ParsePair: what clients write for a currency pair and what is made of   *)
(* it.  A text is a sequence of symbols: a word of three letters, which    *)
(* may be written in two cases, a slash, or anything else.                 *)
(*                                                                         *)
(* A definition named Def_Something is Def with a mistake in it.           *)
(***************************************************************************)
EXTENDS Integers, Sequences

CONSTANTS
  MaxLength,  \* bound: symbols of a text
  Invalid     \* ErrInvalidPair

supportedCurrencies == {"USD", "EUR", "MXN"}
Words == supportedCurrencies \cup {"GBP"}
Lower == [usd |-> "USD", eur |-> "EUR", mxn |-> "MXN", gbp |-> "GBP"]
Symbols == Words \cup DOMAIN Lower \cup {"/", " "}

Texts == UNION {[1..n -> Symbols] : n \in 0..MaxLength}

(* An error is no pair.                                                    *)
ASSUME PairAssumption == MaxLength \in Nat /\ Invalid \notin Texts
-----------------------------------------------------------------------------
ToUpper(s) == [i \in DOMAIN s |-> IF s[i] \in DOMAIN Lower THEN Lower[s[i]] ELSE s[i]]

(* What precedes and what follows the first slash.                         *)
Slashes(s) == {i \in DOMAIN s : s[i] = "/"}
FirstSlash(s) == CHOOSE i \in Slashes(s) : \A j \in Slashes(s) : i <= j
Base(s) == SubSeq(s, 1, FirstSlash(s) - 1)
Quote(s) == SubSeq(s, FirstSlash(s) + 1, Len(s))

Supported(s) == \E c \in supportedCurrencies : s = <<c>>

ParsePair_KeepsCase(s) ==
  LET u == ToUpper(s) IN
    IF /\ Slashes(u) # {}
       /\ Supported(Base(u)) /\ Supported(Quote(u)) /\ Base(u) # Quote(u)
    THEN s ELSE Invalid
ParsePair(s) ==
  LET u == ToUpper(s) IN
    IF /\ Slashes(u) # {}
       /\ Supported(Base(u)) /\ Supported(Quote(u)) /\ Base(u) # Quote(u)
    THEN u ELSE Invalid

(* The CHECK on quote_updates.pair: '^[A-Z]{3}/[A-Z]{3}$'.                 *)
Storable(s) == Len(s) = 3 /\ s[1] \in Words /\ s[2] = "/" /\ s[3] \in Words

(* What the insert and the provider need of a pair: the column accepts it, *)
(* and it splits again into two supported currencies.                      *)
Usable(p) ==
  /\ Storable(p)
  /\ Base(p) = <<p[1]>> /\ Supported(Base(p))
  /\ Quote(p) = <<p[3]>> /\ Supported(Quote(p))
=============================================================================
