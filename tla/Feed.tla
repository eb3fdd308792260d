-------------------------------- MODULE Feed --------------------------------
(***************************************************************************)
(* What the delivery of the Discord bridge promises the readers of its     *)
(* feeds, with no queue, lease, wave, worker or clock in it: a job, an     *)
(* item on a feed, is offered, and then shown or dropped for good; Discord *)
(* shows it in one post at most, however often that post is tried.         *)
(* Delivery is shown to implement this.                                    *)
(***************************************************************************)

CONSTANTS
    Jobs,           \* an item on a feed
    Carried         \* jobs of an older queue, each perhaps posted already

VARIABLES
    stage,          \* job -> where it stands
    visible,        \* the posts, sets of jobs, that Discord may show
    confirmed       \* those that Discord acknowledged

vars == <<stage, visible, confirmed>>

Init ==
    /\ stage = [j \in Jobs |-> IF j \in Carried THEN "waiting" ELSE "unlisted"]
    /\ visible = {{j} : j \in Carried} /\ confirmed = {}

Moved(S, to) == [j \in Jobs |-> IF j \in S THEN to ELSE stage[j]]
Visible(j)   == \E p \in visible : j \in p

(* An item is reported; one withdrawn because it did not fit its feed any  *)
(* more may be offered again, if nobody can have seen it.                  *)
Offer ==
    /\ \E S \in SUBSET {j \in Jobs : stage[j] = "unlisted" \/ (stage[j] = "withdrawn" /\ ~Visible(j))} :
          stage' = Moved(S, "waiting")
    /\ UNCHANGED <<visible, confirmed>>

(* Posts may appear, confirmed or not, also late and for a job dropped by  *)
(* then; but a job is in one of them at most.                              *)
Appear ==
    /\ visible \subseteq visible' /\ confirmed \subseteq confirmed' /\ confirmed' \subseteq visible'
    /\ \A p \in visible' \ visible : p \subseteq {j \in Jobs : stage[j] # "unlisted"}
    /\ \A p, q \in visible' : p \intersect q # {} => p = q
    /\ UNCHANGED stage

Show ==
    /\ \E p \in confirmed :
          /\ \A j \in p : stage[j] = "waiting"
          /\ stage' = Moved(p, "shown")
    /\ UNCHANGED <<visible, confirmed>>

(* Work that expired, failed or was silenced is dropped; some of it was    *)
(* never bound to a post.                                                  *)
Drop ==
    /\ \E S \in SUBSET {j \in Jobs : stage[j] = "waiting"} :
          \E T \in SUBSET {j \in S : ~Visible(j)} :
             stage' = [j \in Jobs |-> IF j \in T THEN "withdrawn" ELSE Moved(S, "dropped")[j]]
    /\ UNCHANGED <<visible, confirmed>>

Next == Offer \/ Appear \/ Show \/ Drop

Spec == Init /\ [][Next]_vars
=============================================================================
