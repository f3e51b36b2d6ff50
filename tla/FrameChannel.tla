---------------------------- MODULE FrameChannel ----------------------------
(***************************************************************************)
(* What a replication connection promises: while it is open, the frames    *)
(* that are sent are heard whole, in order and once each; what is on the   *)
(* way when it ends is lost (server/replica.go, the comment on stream).    *)
(***************************************************************************)
EXTENDS Sequences

CONSTANTS
    Frame,  \* the frames there can be
    None    \* nothing heard yet

VARIABLES
    open,   \* whether there is a connection
    queue,  \* frames sent and not heard
    heard   \* the frame heard last

Init == open = FALSE /\ queue = <<>> /\ heard = None

Open == /\ ~open
        /\ open' = TRUE
        /\ UNCHANGED <<queue, heard>>

Send == /\ open
        /\ \E f \in Frame : queue' = Append(queue, f)
        /\ UNCHANGED <<open, heard>>

Hear == /\ open /\ queue # <<>>
        /\ heard' = Head(queue)
        /\ queue' = Tail(queue)
        /\ UNCHANGED open

End == /\ open
       /\ open' = FALSE
       /\ queue' = <<>>
       /\ UNCHANGED heard

Next == Open \/ Send \/ Hear \/ End

Spec == Init /\ [][Next]_<<open, queue, heard>>
=============================================================================
