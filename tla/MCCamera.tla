------------------------------ MODULE MCCamera ------------------------------
(***************************************************************************)
(* The camera driver with the two frame buffers the program asks for, two  *)
(* tasks that take photos, and frames of one or two DMA buffers and a      *)
(* rest; and, as the driver can be used too, with one buffer.              *)
(***************************************************************************)
EXTENDS Camera

MCTask == {"stream", "capture"}

Usual == [fbCount |-> 2, jpeg |-> TRUE, queue |-> 3, descs |-> 3, room |-> 3, frames |-> 2,
          tasks |-> {"stream"}, lines |-> {2}, timeouts |-> 0, lag |-> 1]

\* A call may time out; larger frames; pictures that are not compressed; one
\* buffer; a task that does not keep up.
MCConfigs ==
  { [Usual EXCEPT !.tasks = MCTask, !.lines = {1}, !.timeouts = 1],
    Usual,
    [Usual EXCEPT !.jpeg = FALSE],
    [Usual EXCEPT !.fbCount = 1, !.lines = {3}, !.room = 4],
    [Usual EXCEPT !.lag = 2, !.queue = 2, !.descs = 2, !.lines = {1}, !.frames = 1] }
=============================================================================
