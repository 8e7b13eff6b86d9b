----------------------------- MODULE MtConnection -----------------------------
(* One connection of client_server/mtserver.c: HandleTCPClient cuts the byte   *)
(* stream of a client into requests and answers each.  TCP delivers the stream *)
(* in pieces of any size, and the handler looks at what it keeps of one piece  *)
(* again with the next.                                                        *)
EXTENDS Integers, SequencesExt

CONSTANTS
  Alphabet,    \* the characters clients send; no NUL, see the README
  RCVBUFSIZE,  \* size of myBuffer (32); longer contents are excluded
  MaxBytes     \* bound: length of the stream

Digits == <<"0", "1", "2", "3", "4", "5", "6", "7", "8", "9">>

Digit == {Digits[i] : i \in 1..10}

DigitValue == [d \in Digit |-> CHOOSE v \in 0..9 : Digits[v + 1] = d]

Uptime == <<"u", "p", "t", "i", "m", "e">>
LoadReq == <<"l", "o", "a", "d">>
Exit == <<"e", "x", "i", "t">>

VARIABLES
  sent,     \* the characters the client has sent
  got,      \* how many of them the handler has received
  handler,  \* its variables, whether it runs, and its answers
  link,     \* "up", "ended" by the client, "drained" (recv has returned 0), "broken"
  parsed    \* reference: entry i + 1 is the handler after it has looked once at
            \* each of the first i characters

connVars == <<sent, got, handler, link, parsed>>

Start == [buf |-> <<>>, my_char |-> 1, numInvalid |-> 0, open |-> TRUE, answers |-> <<>>]

-------------------------------------------------------------------------------
\* The loop over my_char

\* The loop has characters left to look at.
Busy(h) == h.open /\ h.my_char <= Len(h.buf)

Drop(buf, n) == SubSeq(buf, n + 1, Len(buf))

Answer(kind, value) == [kind |-> kind, value |-> value]

\* n characters are answered and removed from the buffer, what follows stays, and the
\* loop starts again.
Cut(h, n, answer, numInvalid, open) ==
  [buf |-> Drop(h.buf, n), my_char |-> 1, numInvalid |-> numInvalid, open |-> open,
   answers |-> Append(h.answers, answer)]

\* Mutant of Answered: answering empties the buffer.
AnsweredAll(h, n, answer) == Cut(h, Len(h.buf), answer, 0, TRUE)

Answered(h, n, answer) == Cut(h, n, answer, 0, TRUE)

\* Mutant of Rejected: the second invalid request closes.
RejectedSooner(h, n) ==
  Cut(h, n, Answer("invalid", -1), h.numInvalid + 1, h.numInvalid < 1)

\* The third invalid request in a row closes.
Rejected(h, n) ==
  Cut(h, n, Answer("invalid", -1), h.numInvalid + 1, h.numInvalid < 2)

\* The rest of a request is awaited.
Awaited(h) ==
  [buf |-> h.buf, my_char |-> h.my_char + 1, numInvalid |-> 0, open |-> TRUE,
   answers |-> h.answers]

Total(digits) == FoldSeq(LAMBDA d, total : DigitValue[d] + total, 0, digits)

AfterDigit(p) == Len(p) > 1 /\ p[Len(p) - 1] \in Digit

\* What begins a request and does not end it.
Begun(p) ==
  \/ p \notin {Uptime, LoadReq} /\ (IsPrefix(p, Uptime) \/ IsPrefix(p, LoadReq))
  \/ Last(p) \in Digit /\ (Len(p) = 1 \/ AfterDigit(p))

\* What the characters up to my_char are.  The word "exit" is not waited for: the
\* comparison stops at my_char, so that its first letter already ends the connection.
Meaning(p) ==
  IF p = Uptime THEN "uptime"
  ELSE IF p = LoadReq THEN "load"
  ELSE IF Begun(p) THEN "begun"
  ELSE IF IsPrefix(p, Exit) THEN "prefixOfExit"
  ELSE IF Last(p) = " " /\ AfterDigit(p) THEN "sum"
  ELSE "invalid"

\* A character that is not understood where it stands, but may begin a request, is
\* looked at again.
Length(p) == IF Len(p) = 1 \/ Last(p) \in Digit \cup {" "} THEN Len(p) ELSE Len(p) - 1

\* One round of the loop: n characters of the buffer are looked at.
Look(h) ==
  LET n == h.my_char
      p == SubSeq(h.buf, 1, n)
      means == Meaning(p)
  IN IF means = "begun" THEN Awaited(h)
     ELSE IF means = "invalid" THEN Rejected(h, Length(p))
     ELSE IF means = "prefixOfExit" THEN Cut(h, Len(h.buf), Answer("prefixOfExit", 0), 0, FALSE)
     ELSE IF means = "sum" THEN Answered(h, n, Answer("sum", Total(SubSeq(p, 1, n - 1))))
     ELSE Answered(h, n, Answer(means, 0))

-------------------------------------------------------------------------------
\* The reference: a character is looked at when it comes, and again only when it
\* was not understood after what came before it.
Again(h) == IF Busy(h) THEN Look(h) ELSE h

Parsed(h, byte) ==
  IF h.open THEN Again(Look([h EXCEPT !.buf = Append(@, byte)])) ELSE h

ConnInit ==
  /\ sent = <<>>
  /\ got = 0
  /\ handler = Start
  /\ link = "up"
  /\ parsed = <<Start>>

Send(byte) ==
  /\ handler.open
  /\ link = "up"
  /\ Len(sent) < MaxBytes
  /\ sent' = Append(sent, byte)
  /\ parsed' = Append(parsed, Parsed(Last(parsed), byte))
  /\ UNCHANGED <<got, handler, link>>

\* The client closes, or sends no more.
EndStream ==
  /\ handler.open
  /\ link = "up"
  /\ link' = "ended"
  /\ UNCHANGED <<sent, got, handler, parsed>>

\* One recv: what came is appended to myBuffer, which is scanned from its start.
Recv(n) ==
  /\ handler.open
  /\ ~Busy(handler)
  /\ Len(handler.buf) + n < RCVBUFSIZE
  /\ handler' = [handler EXCEPT !.buf = @ \o SubSeq(sent, got + 1, got + n), !.my_char = 1]
  /\ got' = got + n
  /\ UNCHANGED <<sent, link, parsed>>

Scan ==
  /\ Busy(handler)
  /\ handler' = Look(handler)
  /\ UNCHANGED <<sent, got, link, parsed>>

HangUpAs(state) ==
  /\ handler.open
  /\ handler' = [handler EXCEPT !.open = FALSE]
  /\ link' = state
  /\ UNCHANGED <<sent, got, parsed>>

\* recv returns 0: everything has been received and the client has ended the stream.
Drain ==
  /\ ~Busy(handler)
  /\ link = "ended"
  /\ got = Len(sent)
  /\ HangUpAs("drained")

\* recv fails, or the send of an answer does.
Break ==
  /\ Busy(handler) => Look(handler).answers # handler.answers
  /\ HangUpAs("broken")

ConnNext ==
  \/ \E byte \in Alphabet : Send(byte)
  \/ \E n \in 1..(Len(sent) - got) : Recv(n)
  \/ Scan
  \/ EndStream
  \/ Drain
  \/ Break

ConnSpec == ConnInit /\ [][ConnNext]_connVars

-------------------------------------------------------------------------------
\* Properties

(* However TCP cuts a stream into pieces, and however often that has the       *)
(* handler look at a character, it gives the answers, keeps the rest and       *)
(* closes as if it had looked at the characters one by one, once each.  At the *)
(* end of the stream it closes besides; when recv or send fails it just stops. *)
ChunkingInvisible ==
  LET once == parsed[got + 1] IN
  ~Busy(handler) /\ link # "broken" =>
    /\ handler.open => handler = once
    /\ handler.open = once.open \/ link = "drained"
    /\ handler.answers = once.answers

(* The handler hangs up only when recv or send fails, when everything is       *)
(* received of a client that ended its stream, after an "e" it took for the    *)
(* beginning of "exit", or after three invalid requests in a row.              *)
ClosedForCause ==
  LET n == Len(handler.answers) IN
  ~handler.open =>
    \/ link = "broken"
    \/ link = "drained" /\ got = Len(sent)
    \/ handler.answers[n].kind = "prefixOfExit" /\ \E i \in 1..got : sent[i] = "e"
    \/ n >= 3 /\ \A i \in (n - 2)..n : handler.answers[i].kind = "invalid"
===============================================================================
