-------------------------- MODULE HttpRequestProofs --------------------------
(***************************************************************************)
(* What every request is answered, for every pair of timeouts, and what    *)
(* becomes of its pair, for texts of any length.                           *)
(***************************************************************************)
EXTENDS QuoteRequest, TLAPS, SequenceTheorems, WellFoundedInduction

LEMMA Layers ==
  /\ Len(Middleware) = 4
  /\ Middleware[1] = "recoverPanic" /\ Middleware[2] = "requestTimeout"
  /\ Middleware[3] = "accessLog" /\ Middleware[4] = "requestID"
BY DEF Middleware

(* A panic is recovered inside the access log, which knows the status.     *)
LEMMA StatusKnown == level = 1 => (Answered <=> answer # "none")
BY Layers DEF Answered

LEMMA HandlerTime ==
  /\ HandlerTimeout(WriteTimeout) = WriteTimeout - Margin
  /\ WriteTimeout \in Nat /\ Margin \in Nat \ {0} /\ WriteTimeout > Margin
BY WidthAssumption, RequestAssumption
DEF HandlerTimeout, RoomToAnswer, Wrap, Durations

(* Each step keeps types, answer and log in line, and starts one answer.   *)
THEOREM Invariance == Spec => []IInv
<1>1. Init => IInv
  <2> SUFFICES ASSUME Init PROVE IInv
    OBVIOUS
  <2> USE DEF Init
  <2>1. TypeOK
    <3>1. req \in Requests /\ level \in 1..Len(Middleware) + 1 /\ clock \in 0..Horizon
      BY Layers, RequestAssumption
    <3> QED
      BY <3>1 DEF TypeOK, Unwinding, Answers
  <2>2. AnswerFollows /\ OneAnswer
    BY DEF AnswerFollows, OneAnswer, Successes
  <2>3. Paced /\ StayingClientAnswered
    BY HandlerTime DEF Paced, StayingClientAnswered
  <2> QED
    BY <2>1, <2>2, <2>3 DEF IInv
<1>2. IInv /\ [Next]_vars => IInv'
  <2> SUFFICES ASSUME IInv, [Next]_vars PROVE IInv'
    OBVIOUS
  <2>0. InTime' = InTime
    BY DEF InTime
  <2> USE <2>0 DEF IInv, TypeOK, AnswerFollows, Paced, OneAnswer, Unwinding, Answers,
              StayingClientAnswered, Refusals, Successes, context
  <2>1. CASE Bind
    <3>1. req \in Requests /\ at = "binding" /\ at' # "finished"
      BY <2>1 DEF Bind, AfterBinding, Requests
    <3>2. UNCHANGED <<req, level, clock, ctx, gone, result, logged, sent>>
      BY <2>1 DEF Bind
    <3>3. CASE /\ at' \in {"reading", "parsing", "calling"}
               /\ UNCHANGED <<answer, spoilt>>
      BY <3>1, <3>2, <3>3
    <3>4. CASE /\ at' = "returned" /\ answer' # "none" /\ spoilt' = FALSE
               /\ answer' \in {"invalid_request", "invalid_pair", "internal_error"}
      <4>1. level = 1 /\ result = "none" /\ logged = "unlogged"
        BY <3>1
      <4>2. AnswerFollows'
        BY <3>2, <3>4, <4>1
      <4>3. TypeOK'
        <5>1. TypeOK
          OBVIOUS
        <5> HIDE DEF IInv, AnswerFollows, Paced, OneAnswer, StayingClientAnswered
        <5> QED
          BY <3>1, <3>2, <3>4, <4>1, <5>1
      <4> QED
        BY <3>2, <3>4, <4>2, <4>3
    <3>5. CASE at' = "returned" /\ ctx = "canceled" /\ UNCHANGED <<answer, spoilt>>
      BY <3>1, <3>2, <3>5
    <3>6. CASE req.params = "fit"
      <4>1. req.route \in {"create", "get", "latest"}
        BY <3>1 DEF Requests
      <4>2. AfterBinding \in {"reading", "parsing", "calling"}
        BY <4>1 DEF AfterBinding
      <4> QED
        BY <2>1, <3>3, <3>6, <4>2 DEF Bind
    <3>7. CASE req.params # "fit"
      <4>1. WriteParamError /\ at' = "returned"
        BY <2>1, <3>7 DEF Bind
      <4>2. \/ WriteError("invalid_pair") \/ WriteError("invalid_request")
            \/ WriteError("internal_error")
            \/ ctx = "canceled" /\ UNCHANGED <<answer, spoilt>>
        BY <4>1 DEF WriteParamError, WriteInternal, ClientGone
      <4> QED
        BY <3>1, <3>4, <3>5, <4>1, <4>2 DEF WriteError
    <3> QED
      BY <3>6, <3>7
  <2>2. CASE ReadBody
    BY <2>2 DEF ReadBody, Refuse, WriteError
  <2>3. CASE Parse
    BY <2>3 DEF Parse, Refuse, WriteError
  <2>4. CASE ServiceReturns
    BY <2>4 DEF ServiceReturns, Results
  <2>5. CASE Panic
    BY <2>5 DEF Panic
  <2>6. CASE Reply
    BY <2>6 DEF Reply, Refuse, WriteInternal, WriteError, ClientGone
  <2>7. CASE Encode
    BY <2>7 DEF Encode
  <2>8. CASE Unwind
    <3>1. level \in 1..4
      BY <2>8, Layers DEF Unwind
    <3>2. CASE level = 1
      BY <2>8, <3>2, Layers, StatusKnown DEF Unwind, RecoverPanic, WriteError
    <3>3. CASE level \in {2, 4}
      BY <2>8, <3>3, Layers DEF Unwind
    <3>4. CASE level = 3
      BY <2>8, <3>4, Layers DEF Unwind
    <3> QED
      BY <3>1, <3>2, <3>3, <3>4
  <2>9. CASE Finish
    <3>1. level = 5 /\ at # "panicked"
      BY <2>9, Layers DEF Finish
    <3>2. TypeOK' /\ AnswerFollows' /\ Paced' /\ OneAnswer'
      BY <2>9, <3>1, Layers DEF Finish
    <3>3. StayingClientAnswered'
      <4>1. InTime => ~(clock >= WriteTimeout)
        BY HandlerTime, RequestAssumption
      <4>2. CASE at = "returned"
        BY <2>9, <4>1, <4>2 DEF Finish
      <4>3. CASE at = "aborted"
        BY <2>9, <4>3 DEF Finish
      <4> QED
        BY <3>1, <2>9, <4>2, <4>3 DEF Finish
    <3> QED
      BY <3>2, <3>3
  <2>10. CASE ClientLeaves
    BY <2>10 DEF ClientLeaves
  <2>11. CASE Cancel
    BY <2>11 DEF Cancel
  <2>12. CASE Expire
    BY <2>12 DEF Expire
  <2>13. CASE Tick
    BY <2>13, HandlerTime, RequestAssumption DEF Tick, Due, InTime
  <2>14. CASE UNCHANGED vars
    BY <2>14 DEF vars
  <2> QED
    BY <2>1, <2>2, <2>3, <2>4, <2>5, <2>6, <2>7, <2>8, <2>9, <2>10, <2>11,
       <2>12, <2>13, <2>14 DEF Next, Handle
<1> QED
  BY <1>1, <1>2, PTL DEF Spec

(* Types.                                                                  *)
THEOREM Typing == Spec => []TypeOK
BY Invariance, PTL DEF IInv

(* No second answer is ever begun.                                         *)
THEOREM AnswersOnce == Spec => []OneAnswer
BY Invariance, PTL DEF IInv

(* A client that stays is answered, in time and in the envelope.           *)
THEOREM ClientAnswered == Spec => []StayingClientAnswered
BY Invariance, PTL DEF IInv

(* The access log has the answer that went out.                            *)
THEOREM LogStands == Spec => []LogTellsAnswer
<1>1. IInv => LogTellsAnswer
  BY DEF IInv, TypeOK, AnswerFollows, LogTellsAnswer, Answers, Refusals, Successes
<1> QED
  BY Invariance, <1>1, PTL
-----------------------------------------------------------------------------
(***************************************************************************)
(* ParsePair.                                                              *)
(***************************************************************************)
LEMMA LeastExists ==
  ASSUME NEW S \in SUBSET Nat, S # {}
  PROVE  \E i \in S : \A j \in S : i <= j
<1>1. PICK i \in S : \A j \in S : ~ (<<j, i>> \in OpToRel(<, Nat))
  BY WFMin, NatLessThanWellFounded
<1>2. \A j \in S : j < i => <<j, i>> \in OpToRel(<, Nat)
  BY DEF OpToRel
<1>3. \A j \in S : ~(j < i)
  BY <1>1, <1>2, Zenon
<1> QED
  BY <1>3

LEMMA UpperIsText ==
  ASSUME NEW text \in Texts
  PROVE  ToUpper(text) \in Texts /\ ToUpper(text) \in Seq(Symbols)
<1>1. PICK n \in 0..MaxLength : text \in [1..n -> Symbols]
  BY DEF Texts
<1>2. \A l \in DOMAIN Lower : Lower[l] \in Symbols
  <2>1. DOMAIN Lower = {"usd", "eur", "mxn", "gbp"}
    BY DEF Lower
  <2>2. /\ Lower["usd"] = "USD" /\ Lower["eur"] = "EUR"
        /\ Lower["mxn"] = "MXN" /\ Lower["gbp"] = "GBP"
    BY DEF Lower
  <2>3. {"USD", "EUR", "MXN", "GBP"} \subseteq Symbols
    BY DEF Symbols, Words, supportedCurrencies
  <2> QED
    BY <2>1, <2>2, <2>3
<1>3. ToUpper(text) \in [1..n -> Symbols]
  BY <1>1, <1>2 DEF ToUpper
<1> QED
  BY <1>3, PairAssumption DEF Texts

(* strings.Cut stops at the first slash, and there is a first one.         *)
LEMMA FirstSlashIs ==
  ASSUME NEW s \in Seq(Symbols), Slashes(s) # {}
  PROVE  FirstSlash(s) \in Slashes(s)
<1>1. Slashes(s) \in SUBSET Nat
  BY DEF Slashes
<1>2. \E i \in Slashes(s) : \A j \in Slashes(s) : i <= j
  BY <1>1, LeastExists
<1> QED
  BY <1>2 DEF FirstSlash

LEMMA Singleton ==
  ASSUME NEW x, NEW s, s = <<x>>
  PROVE  Len(s) = 1 /\ s[1] = x
OBVIOUS

LEMMA OneSymbol ==
  ASSUME NEW s \in Seq(Symbols), NEW i \in 1..Len(s)
  PROVE  SubSeq(s, i, i) = <<s[i]>>
<1>1. s[i] \in Symbols /\ \A j \in i..i : s[j] \in Symbols
  OBVIOUS
<1>2. /\ SubSeq(s, i, i) \in Seq(Symbols) /\ Len(SubSeq(s, i, i)) = 1
      /\ SubSeq(s, i, i)[1] = s[i]
  BY <1>1, SubSeqProperties
<1>3. <<s[i]>> \in Seq(Symbols) /\ Len(<<s[i]>>) = 1 /\ <<s[i]>>[1] = s[i]
  BY <1>1
<1>4. \A j \in 1..1 : SubSeq(s, i, i)[j] = <<s[i]>>[j]
  BY <1>2, <1>3
<1> QED
  BY <1>2, <1>3, <1>4, SeqEqual

(* Two supported currencies around a slash split into just these, ...      *)
LEMMA PairSplits ==
  ASSUME NEW b \in supportedCurrencies, NEW q \in supportedCurrencies,
         NEW s, s = <<b, "/", q>>
  PROVE  /\ Slashes(s) # {}
         /\ Base(s) = <<b>> /\ Quote(s) = <<q>>
         /\ Usable(s)
<1>1. "/" \in Symbols /\ b \in Symbols /\ q \in Symbols
  BY DEF Symbols, Words
<1>2. /\ s \in Seq(Symbols) /\ Len(s) = 3
      /\ s[1] = b /\ s[2] = "/" /\ s[3] = q
  BY <1>1
<1>3. b # "/" /\ q # "/"
  BY DEF supportedCurrencies
<1>4. Slashes(s) = {2}
  BY <1>2, <1>3 DEF Slashes
<1>5. FirstSlash(s) = 2
  BY <1>2, <1>4, FirstSlashIs
<1>6. Base(s) = <<b>>
  <2>1. Base(s) = SubSeq(s, 1, 1)
    BY <1>5 DEF Base
  <2> QED
    BY <1>2, <2>1, OneSymbol
<1>7. Len(s) = 3 /\ FirstSlash(s) + 1 = 3
  BY <1>2, <1>5
<1>8. Quote(s) = <<q>>
  <2>1. Quote(s) = SubSeq(s, 3, 3)
    BY <1>7 DEF Quote
  <2> QED
    BY <1>2, <2>1, OneSymbol
<1>9. Storable(s)
  BY <1>2 DEF Storable, Words
<1> QED
  BY <1>2, <1>4, <1>6, <1>8, <1>9 DEF Usable, Supported

(* ... and nothing else splits into two supported currencies.              *)
LEMMA OnlyPairsSplit ==
  ASSUME NEW s \in Seq(Symbols), Slashes(s) # {},
         Supported(Base(s)), Supported(Quote(s)), Base(s) # Quote(s)
  PROVE  \E b, q \in supportedCurrencies : b # q /\ s = <<b, "/", q>>
<1>1. PICK b \in supportedCurrencies : Base(s) = <<b>>
  BY DEF Supported
<1>2. PICK q \in supportedCurrencies : Quote(s) = <<q>>
  BY DEF Supported
<1> DEFINE f == FirstSlash(s)
<1>3. f \in 1..Len(s) /\ s[f] = "/"
  BY FirstSlashIs DEF Slashes
<1>4. f = 2 /\ s[1] = b
  <2> HIDE DEF f
  <2>1. \A i \in 1..f - 1 : s[i] \in Symbols
    BY <1>3
  <2>2. SubSeq(s, 1, f - 1) = <<b>>
    BY <1>1 DEF Base, f
  <2>3. Len(SubSeq(s, 1, f - 1)) = 1 /\ SubSeq(s, 1, f - 1)[1] = b
    BY <2>2, Singleton
  <2>4. Len(SubSeq(s, 1, f - 1)) = IF 1 <= f - 1 THEN f - 1 - 1 + 1 ELSE 0
    BY <1>3, <2>1, SubSeqProperties, f - 1 \in Int
  <2>5. f = 2
    BY <1>3, <2>3, <2>4
  <2>6. SubSeq(s, 1, 1) = <<s[1]>>
    BY <1>3, <2>5, OneSymbol
  <2> QED
    BY <2>3, <2>5, <2>6
<1>5. Len(s) = 3 /\ s[3] = q
  <2>1. \A i \in 3..Len(s) : s[i] \in Symbols
    OBVIOUS
  <2>2. SubSeq(s, 3, Len(s)) = <<q>>
    BY <1>2, <1>4 DEF Quote
  <2>3. Len(SubSeq(s, 3, Len(s))) = 1 /\ SubSeq(s, 3, Len(s))[1] = q
    BY <2>2, Singleton
  <2>4. Len(SubSeq(s, 3, Len(s))) = IF 3 <= Len(s) THEN Len(s) - 3 + 1 ELSE 0
    BY <2>1, SubSeqProperties
  <2>5. Len(s) = 3
    BY <2>3, <2>4
  <2>6. SubSeq(s, 3, 3) = <<s[3]>>
    BY <2>5, OneSymbol
  <2> QED
    BY <2>3, <2>5, <2>6
<1>6. s = <<b, "/", q>>
  BY <1>3, <1>4, <1>5
<1> QED
  BY <1>1, <1>2, <1>6

(* The pair a text means is the text in capitals, if that is two different *)
(* supported currencies around one slash, and no pair otherwise.           *)
THEOREM ParsePairExact ==
  \A text \in Texts :
    IF \E b, q \in supportedCurrencies : b # q /\ ToUpper(text) = <<b, "/", q>>
    THEN ParsePair(text) = ToUpper(text) /\ Usable(ParsePair(text))
    ELSE ParsePair(text) = Invalid
<1> SUFFICES ASSUME NEW text \in Texts
             PROVE  IF \E b, q \in supportedCurrencies :
                         b # q /\ ToUpper(text) = <<b, "/", q>>
                    THEN ParsePair(text) = ToUpper(text) /\ Usable(ParsePair(text))
                    ELSE ParsePair(text) = Invalid
  OBVIOUS
<1> DEFINE u == ToUpper(text)
           Splits == /\ Slashes(u) # {}
                     /\ Supported(Base(u)) /\ Supported(Quote(u)) /\ Base(u) # Quote(u)
<1>1. ParsePair(text) = IF Splits THEN u ELSE Invalid
  BY DEF ParsePair
<1>2. u \in Seq(Symbols)
  BY UpperIsText
<1> HIDE DEF u
<1>3. ASSUME NEW b \in supportedCurrencies, NEW q \in supportedCurrencies,
             b # q, u = <<b, "/", q>>
      PROVE  Splits /\ Usable(u)
  <2>1. Slashes(u) # {} /\ Base(u) = <<b>> /\ Quote(u) = <<q>> /\ Usable(u)
    BY <1>3, PairSplits
  <2>2. <<b>> # <<q>>
    BY <1>3
  <2> QED
    BY <2>1, <2>2 DEF Supported
<1>4. Splits => \E b, q \in supportedCurrencies : b # q /\ u = <<b, "/", q>>
  BY <1>2, OnlyPairsSplit
<1> HIDE DEF Splits
<1> QED
  BY <1>1, <1>3, <1>4 DEF u

(* What a handler is about to parse has one spelling, or it is refused.    *)
THEOREM SpelledOnce == Spec => []OneSpelling
<1>1. TypeOK => OneSpelling
  <2> SUFFICES ASSUME req.pair \in BOOLEAN, NEW text \in Behind(req)
               PROVE  IF \E b, q \in supportedCurrencies :
                           b # q /\ ToUpper(text) = <<b, "/", q>>
                      THEN ParsePair(text) = ToUpper(text) /\ Usable(ParsePair(text))
                      ELSE ~req.pair
    BY DEF OneSpelling, TypeOK, Requests
  <2>1. text \in Texts /\ (ParsePair(text) # Invalid) = req.pair
    BY DEF Behind
  <2>2. CASE \E b, q \in supportedCurrencies : b # q /\ ToUpper(text) = <<b, "/", q>>
    BY <2>1, <2>2, ParsePairExact
  <2>3. CASE ~\E b, q \in supportedCurrencies : b # q /\ ToUpper(text) = <<b, "/", q>>
    BY <2>1, <2>3, ParsePairExact
  <2> QED
    BY <2>2, <2>3
<1> QED
  BY <1>1, Typing, PTL
=============================================================================
