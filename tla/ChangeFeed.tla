----------------------------- MODULE ChangeFeed -----------------------------
(***************************************************************************)
(* What federation promises the target of an entry, whatever pages,        *)
(* requests and retries it takes.  Changes become visible one after the    *)
(* other, each with the next number; only visible changes reach the        *)
(* target; and its watermark moves only to where every change that still   *)
(* stands has reached it (or was given up).  A restore takes the source,   *)
(* the numbers and the watermark back together.                            *)
(***************************************************************************)
EXTENDS Naturals

CONSTANT Objects

VARIABLES
    latest,    \* latest[o]: the number of o's last change, 0 when there is no o
    head,      \* the number of the last change that became visible
    reached,   \* the changes, <<object, number>>, that reached the target
    mark,      \* the target's watermark
    saved      \* the backup a restore takes the source back to

vars == <<latest, head, reached, mark, saved>>

Init ==
    /\ latest = [o \in Objects |-> 0] /\ head = 0
    /\ reached = {} /\ mark = 0
    /\ saved = [latest |-> latest, head |-> head, mark |-> mark]

Change(o) ==
    /\ head' = head + 1
    /\ latest' = [latest EXCEPT ![o] = head']
    /\ UNCHANGED <<reached, mark, saved>>

Delete(o) ==
    /\ latest[o] # 0
    /\ latest' = [latest EXCEPT ![o] = 0]
    /\ UNCHANGED <<head, reached, mark, saved>>

Deliver ==
    /\ reached \subseteq reached'
    /\ reached' \ reached \subseteq Objects \X (1 .. head)
    /\ UNCHANGED <<latest, head, mark, saved>>

(* Forward past what has reached the target, or back.                       *)
Advance ==
    /\ mark' \in 0 .. head
    /\ \A o \in Objects : latest[o] \in 1 .. mark' => <<o, latest[o]>> \in reached
    /\ UNCHANGED <<latest, head, reached, saved>>

Save ==
    /\ saved' = [latest |-> latest, head |-> head, mark |-> mark]
    /\ UNCHANGED <<latest, head, reached, mark>>

(* The changes after the backup never were: their numbers are given again.  *)
Restore ==
    /\ latest' = saved.latest /\ head' = saved.head /\ mark' = saved.mark
    /\ reached' = {c \in reached : c[2] <= saved.head}
    /\ UNCHANGED saved

Next ==
    \/ \E o \in Objects : Change(o) \/ Delete(o)
    \/ Deliver \/ Advance \/ Save \/ Restore

Spec == Init /\ [][Next]_vars

=============================================================================
