---------------------------- MODULE QuoteRequest ----------------------------
(***************************************************************************)
(* A request together with the parser its pair goes through: of a pair     *)
(* HttpRequest knows only whether it parses.                               *)
(***************************************************************************)
EXTENDS HttpRequest, PairText

(* The texts that may stand in a request.                                  *)
Behind(request) == {text \in Texts : (ParsePair(text) # Invalid) = request.pair}

(* ParsePair: however it is written, a pair is one value, since the tasks  *)
(* of one pair are deduplicated, and its latest quote is found, by         *)
(* comparing these.  What a handler that is about to parse will let        *)
(* through is that value, usable as it stands, and none but a text that    *)
(* differs from it in case at most; what it will refuse is no pair.        *)
OneSpelling ==
  at = "parsing" =>
    \A text \in Behind(req) :
      IF \E b, q \in supportedCurrencies : b # q /\ ToUpper(text) = <<b, "/", q>>
      THEN ParsePair(text) = ToUpper(text) /\ Usable(ParsePair(text))
      ELSE ~req.pair
=============================================================================
