------------------------------ MODULE AppendLog -------------------------------
(***************************************************************************)
(* What a capture file promises, with no queue, buffer, thread or timer:   *)
(* the file holds a first part of what was submitted, whole records in the *)
(* order of their submission, each once, and only ever grows.  It may end  *)
(* in a torn record, a part of the one that was next to be written; then   *)
(* it grows no more.  NdjsonWriter implements it, CaptureRun with          *)
(* everything around it too.                                               *)
(***************************************************************************)
EXTENDS Sequences, Naturals

VARIABLES
  submitted,  (* The records submitted, in order.                          *)
  file,       (* The whole records in the file.                            *)
  torn        (* A part of a record follows them.                          *)

Init == submitted = << >> /\ file = << >> /\ torn = FALSE

(* One or several records are submitted. *)
Submit ==
  /\ Len(submitted') > Len(submitted)
  /\ SubSeq(submitted', 1, Len(submitted)) = submitted
  /\ UNCHANGED << file, torn >>

(* The next records are written. *)
Write ==
  /\ ~ torn
  /\ Len(file') \in Len(file) + 1 .. Len(submitted)
  /\ file' = SubSeq(submitted, 1, Len(file'))
  /\ UNCHANGED << submitted, torn >>

(* So they are, if any, but the last of them only in part. *)
Tear ==
  /\ ~ torn /\ torn'
  /\ Len(file') \in Len(file) .. Len(submitted) - 1
  /\ file' = SubSeq(submitted, 1, Len(file'))
  /\ UNCHANGED submitted

Spec == Init /\ [][Submit \/ Write \/ Tear]_<< submitted, file, torn >>
===============================================================================
