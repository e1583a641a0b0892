---------------------------- MODULE FollowedOutput ----------------------------
(***************************************************************************)
(* What the output of a task promises to clients that follow it while it   *)
(* is written (capture, the report of execute_claimed, and output of       *)
(* src/worker.rs): files only grow, and only until the exit is recorded;   *)
(* the verdict on them is right; and a client that was told that it has    *)
(* come to the end stays told so, with nothing left to read.               *)
(***************************************************************************)
EXTENDS Naturals

CONSTANTS
    Readers,   \* clients that follow the output
    Streams    \* the streams of the task

VARIABLES
    written,   \* bytes the command wrote to a stream
    file,      \* bytes of a stream that can be read
    verdict,   \* "open", then whether the files are "whole" or "cut"
    follows,   \* the stream that a client follows
    place,     \* bytes of its stream that a client has
    told       \* what a client was told at the end, "open" before

vars == <<written, file, verdict, follows, place, told>>

Init ==
    /\ written = [s \in Streams |-> 0]
    /\ file = [s \in Streams |-> 0]
    /\ verdict = "open"
    /\ follows \in [Readers -> Streams]
    /\ place = [r \in Readers |-> 0]
    /\ told = [r \in Readers |-> "open"]

(* The function f' is f but for a greater value at x. *)
Raises(f, g, x) == g[x] > f[x] /\ g = [f EXCEPT ![x] = g[x]]

Write(s) ==
    /\ verdict = "open"
    /\ Raises(written, written', s)
    /\ UNCHANGED <<file, verdict, follows, place, told>>

Store(s) ==
    /\ verdict = "open"
    /\ Raises(file, file', s)
    /\ file'[s] <= written[s]
    /\ UNCHANGED <<written, verdict, follows, place, told>>

(* The exit is recorded: the output is whole, or is called truncated. *)
Settle ==
    /\ verdict = "open"
    /\ verdict' = IF file = written THEN "whole" ELSE "cut"
    /\ UNCHANGED <<written, file, follows, place, told>>

Read(r) ==
    /\ Raises(place, place', r)
    /\ place'[r] <= file[follows[r]]
    /\ UNCHANGED <<written, file, verdict, follows, told>>

(* The answer: the task exited, and there is no more. *)
Tell(r) ==
    /\ verdict # "open"
    /\ place[r] = file[follows[r]]
    /\ told' = [told EXCEPT ![r] = verdict]
    /\ UNCHANGED <<written, file, verdict, follows, place>>

Next ==
    \/ \E s \in Streams : Write(s) \/ Store(s)
    \/ Settle
    \/ \E r \in Readers : Read(r) \/ Tell(r)

Spec == Init /\ [][Next]_vars

=============================================================================
