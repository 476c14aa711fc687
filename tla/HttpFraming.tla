---------------------------- MODULE HttpFraming ----------------------------
(***************************************************************************)
(* proto.HasFullPayload and the header lookups it makes: when does a list  *)
(* of TCP payloads hold one whole HTTP/1 message, and what does the parser *)
(* remember between two calls on the same message (proto.HTTPState).       *)
(*                                                                         *)
(* A payload is a record of what HasFullPayload can tell about its bytes:  *)
(*   len      its length                                                   *)
(*   title    the title line it starts with: "request", "response", "none" *)
(*   hend     the offset just past the first empty line, 0 if it has none  *)
(*   clen     the Content-Length header it carries, 0 if none              *)
(*   framing  its Transfer-Encoding: "none", "chunked", or                 *)
(*            "trailer" for chunked with a Trailer header                  *)
(*   expect   does it carry Expect: 100-continue                           *)
(*   tail     its last bytes: "last" for 0 CRLF CRLF (the last chunk),     *)
(*            "blank" for another CRLF CRLF, "none" otherwise              *)
(***************************************************************************)
EXTENDS Integers, Sequences, SequencesExt

Titles == {"request", "response", "none"}
Framings == {"none", "chunked", "trailer"}
Tails == {"none", "blank", "last"}

\* proto.HTTPState as new(HTTPState) leaves it. body is the offset of the body
\* in the message (Body and HeaderEnd, which are set together).
NewHTTPState == [body |-> 0, parsed |-> FALSE, chunked |-> FALSE,
                 trailer |-> FALSE, bodyLen |-> 0, continue100 |-> FALSE]

\* The bytes of the first n payloads.
BytesUpTo(ps, n) == FoldLeft(LAMBDA sum, p : sum + p.len, 0, SubSeq(ps, 1, n))

\* The first payload that holds the end of the headers, 0 if none does.
HeaderEndIn(ps) == SelectInSeq(ps, LAMBDA p : p.hend > 0)

\* Locate the body once: a position found by an earlier call is kept.
LocateBody(s, ps) ==
    LET i == HeaderEndIn(ps)
    IN  IF s.body > 0 \/ i = 0 THEN s
        ELSE [s EXCEPT !.body = BytesUpTo(ps, i - 1) + ps[i].hend]

\* The payload at which the loop over the headers breaks: the first one with a
\* Content-Length that is not chunked, or with which the headers are complete.
HeaderLoopEnd(s, ps) ==
    CHOOSE n \in DOMAIN ps :
        /\ \/ ps[n].framing = "none" /\ ps[n].clen > 0
           \/ BytesUpTo(ps, n) >= s.body
        /\ \A k \in 1..(n - 1) : /\ ps[k].framing # "none" \/ ps[k].clen = 0
                                 /\ BytesUpTo(ps, k) < s.body

\* Read Transfer-Encoding, Trailer, Content-Length and Expect, once. A header of
\* a payload after the one that stops the loop is not seen.
ParseHeaders(s, ps) ==
    LET n     == HeaderLoopEnd(s, ps)
        seen  == SubSeq(ps, 1, n)
        coded == SelectLastInSeq(seen, LAMBDA p : p.framing # "none")
        sized == SelectLastInSeq(seen, LAMBDA p : p.framing = "none")
    IN  IF s.parsed THEN s
        ELSE [s EXCEPT !.parsed = TRUE,
                       !.chunked = coded > 0,
                       !.trailer = coded > 0 /\ seen[coded].framing = "trailer",
                       !.bodyLen = IF sized = 0 THEN 0 ELSE seen[sized].clen,
                       !.continue100 = \E k \in DOMAIN ps : k <= n /\ ps[k].expect]

\* Is the body that follows the parsed headers complete?
BodyComplete(s, ps) ==
    LET got == BytesUpTo(ps, Len(ps)) - s.body
    IN  IF s.chunked
        THEN /\ got >= 1
             /\ Last(ps).tail \in (IF s.trailer THEN {"last", "blank"} ELSE {"last"})
        ELSE s.bodyLen = got

\* proto.HasFullPayload(m, payloads...): the state it leaves in the message and
\* its result.
HasFullPayload(s, ps) ==
    LET located == LocateBody(s, ps)
        parsed  == ParseHeaders(located, ps)
    IN  IF ps = <<>> \/ ps[1].title = "none" THEN [state |-> s, full |-> FALSE]
        ELSE IF located.body = 0 THEN [state |-> located, full |-> FALSE]
        ELSE [state |-> parsed, full |-> BodyComplete(parsed, ps)]
=============================================================================
