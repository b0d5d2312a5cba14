----------------------------- MODULE ByteStream -----------------------------
(***************************************************************************)
(* What one direction of a qmux channel promises the two programs that     *)
(* use it: "an ordered, reliable, flow-controlled, duplex stream"          *)
(* (localPackages/mux/api.go:21).  The bytes of the stream are named by    *)
(* their positions 1, 2, 3, ...; the reader is handed them in that order,  *)
(* each once, and is told the stream is over only after it has been handed *)
(* everything written before the writer ended it, unless the connection    *)
(* broke.                                                                  *)
(***************************************************************************)
EXTENDS Naturals, Sequences

VARIABLES
    written,    \* number of bytes handed to the transport so far
    ended,      \* TRUE once the writer's end has announced EOF or Close
    mark,       \* value of written when the end was announced
    broken,     \* TRUE once the reader's session has died of an error
    got,        \* the bytes handed to the reading program so far
    atEOF       \* TRUE once the reading program has been told io.EOF

vars == <<written, ended, mark, broken, got, atEOF>>

(* The k bytes that follow position p. *)
Run(p, k) == [i \in 1..k |-> p + i]

Init ==
    /\ written = 0
    /\ ended = FALSE
    /\ mark = 0
    /\ broken = FALSE
    /\ got = <<>>
    /\ atEOF = FALSE

Write ==
    /\ written' \in Nat
    /\ written' > written
    /\ UNCHANGED <<ended, mark, broken, got, atEOF>>

End ==
    /\ ~ended
    /\ ended' = TRUE
    /\ mark' = written
    /\ UNCHANGED <<written, broken, got, atEOF>>

(* Bytes written after the end was announced are never handed over. *)
Readable == IF ended THEN mark ELSE written

Read ==
    /\ ~atEOF
    /\ \E k \in 1..(Readable - Len(got)) : got' = got \o Run(Len(got), k)
    /\ UNCHANGED <<written, ended, mark, broken, atEOF>>

ReadEOF ==
    /\ ~atEOF
    /\ broken \/ (ended /\ Len(got) = mark)
    /\ atEOF' = TRUE
    /\ UNCHANGED <<written, ended, mark, broken, got>>

Break ==
    /\ broken' = TRUE
    /\ UNCHANGED <<written, ended, mark, got, atEOF>>

Next == Write \/ End \/ Read \/ ReadEOF \/ Break

Spec == Init /\ [][Next]_vars
=============================================================================
