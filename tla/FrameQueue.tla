----------------------------- MODULE FrameQueue -----------------------------
(* What a ring of the network card promises: a bounded queue.  A frame that is
   in it comes out once, unchanged, after those that went in before it. *)
EXTENDS Integers, Sequences

CONSTANTS Frames, NoFrame, Capacity

VARIABLES
    queue,      \* the frames in the ring, the oldest first
    out         \* the last frame that came out

Init == queue = <<>> /\ out = NoFrame

Put(f) ==
    /\ Len(queue) < Capacity
    /\ queue' = Append(queue, f)
    /\ UNCHANGED out

Get ==
    /\ queue # <<>>
    /\ out' = Head(queue)
    /\ queue' = Tail(queue)

Next == Get \/ \E f \in Frames : Put(f)

Spec == Init /\ [][Next]_<<queue, out>>
=============================================================================
