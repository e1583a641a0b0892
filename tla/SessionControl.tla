--------------------------- MODULE SessionControl ---------------------------
(***************************************************************************)
(* User control of sessions as its holders see it: a terminal takes a      *)
(* session with a token of its own, renews the lease, releases it, or      *)
(* dies with it, while agents submit work and other processes open the     *)
(* store (take_session, renew_session, release_session and initialize of   *)
(* src/tasks.rs).  The calls are those of TaskJournal; what is added is    *)
(* what each holder believes.                                              *)
(***************************************************************************)
EXTENDS TaskJournal

(* NULL is neither the id of a session nor a row. *)
ASSUME SessionAssumption == None \notin SessionIds \cup SessionRow

VARIABLE belief   \* per token: the session its holder thinks it controls,
                  \* and when the last take or renewal was answered Ok

cvars == <<jvars, belief>>

Holders == Tokens \ ShortTokens

Nothing == [session |-> None, renewed |-> None]

Believes(t, s) == belief[t].session = s

ControlInit ==
    /\ Init
    /\ belief = [t \in Holders |-> Nothing]

-----------------------------------------------------------------------------
UserTakes(t, s) ==
    /\ belief[t] = Nothing
    /\ TakeSession(s, t)
    /\ belief' = [belief EXCEPT ![t] = [session |-> s, renewed |-> clock]]

UserRenews(t, s) ==
    /\ Believes(t, s)
    /\ RenewSession(s, t)
    /\ belief' = [belief EXCEPT ![t].renewed = clock]

UserReleases(t, s) ==
    /\ Believes(t, s)
    /\ ReleaseSession(s, t)
    /\ belief' = [belief EXCEPT ![t] = Nothing]

(* A renewal or release is answered control_not_owned. *)
UserIsRefused(t, s) ==
    /\ Believes(t, s)
    /\ sessions[s].control_token # t
    /\ belief' = [belief EXCEPT ![t] = Nothing]
    /\ UNCHANGED jvars

UserDies(t) ==
    /\ belief[t] # Nothing
    /\ belief' = [belief EXCEPT ![t] = Nothing]
    /\ UNCHANGED jvars

UserStep(t) ==
    \/ \E s \in SessionIds : \/ UserTakes(t, s)
                             \/ UserRenews(t, s)
                             \/ UserReleases(t, s)
                             \/ UserIsRefused(t, s)
    \/ UserDies(t)

(* Agents and workers, from the point of view of the session: a task is    *)
(* accepted, claimed and reported.                                         *)
AgentStep ==
    /\ \/ \E s \in SessionIds :
            \/ \E d \in Devices : CreateSession(s, d)
            \/ \E r \in RequestIds, e \in Executions : ReserveTask(s, r, e)
       \/ TaskStep
    /\ UNCHANGED belief

Opens == (ExpireControls \/ SweepStale) /\ UNCHANGED belief

TimePasses == (\E at \in Clock : SetClock(at)) /\ UNCHANGED belief

ControlNext ==
    \/ \E t \in Holders : UserStep(t)
    \/ AgentStep
    \/ Opens
    \/ TimePasses

ControlSpec == ControlInit /\ [][ControlNext]_cvars

-----------------------------------------------------------------------------
(* A holder whose take or renewal was answered at most LeaseSeconds ago    *)
(* has the session to itself: no other token controls it and no agent work *)
(* is in it, whatever other processes opened the store meanwhile.          *)
FreshHolderIsAlone ==
    \A t \in Holders, s \in SessionIds :
      Believes(t, s) /\ clock - belief[t].renewed <= LeaseSeconds =>
        /\ sessions[s].control_token = t
        /\ ~Busy(s)

(* Control leaves a token only by its own holder's release or, once its    *)
(* lease has lapsed, by an open: a holder that outlived its lease can      *)
(* neither release nor prolong the control of the next one.                *)
ControlIsNotStolen ==
    [][\A s \in SessionIds, t \in Holders :
         /\ Controlled(s) /\ ~ControlLapsed(sessions[s])
         /\ sessions[s].control_token = t
         => \/ sessions'[s].control_token = t
            \/ Believes(t, s) /\ ~Believes(t, s)']_cvars

(* Only its owner prolongs a lease: when the lease of a controlled session *)
(* changes, the control stays where it is, and the one holder who is       *)
(* answered Ok in that step is the owner.  One whose own lease lapsed does *)
(* not keep the next owner's control alive, whether that owner lives or    *)
(* not.                                                                    *)
LeaseIsTheHolders ==
    [][\A s \in SessionIds :
         /\ Controlled(s) /\ Controlled(s)'
         /\ sessions'[s].control_lease # sessions[s].control_lease
         => LET owner == sessions[s].control_token
            IN  /\ sessions'[s].control_token = owner
                /\ Believes(owner, s)
                /\ belief'[owner] = [session |-> s, renewed |-> clock]
                /\ \A t \in Holders \ {owner} : belief'[t] = belief[t]]_cvars

(* A session whose user is gone does not stay controlled for ever.  The    *)
(* second disjunct is where the clock of the model stops.                  *)
AbandonedControlEnds ==
    \A s \in SessionIds :
      (Controlled(s) /\ \A t \in Holders : ~Believes(t, s))
      ~> (\/ ~Controlled(s)
          \/ sessions[s].control_lease >= MaxClock - LeaseSeconds)

=============================================================================
