----------------------------- MODULE WorkQueue ------------------------------
(***************************************************************************)
(* EXTERNAL.  The client-go rate-limiting work queue both publishers use:  *)
(* an item being processed is never handed out a second time; adding it    *)
(* then only marks it dirty, and Done puts it back.                        *)
(***************************************************************************)
EXTENDS Sequences

CONSTANT Items

VARIABLES
  queue,       \* items ready to be handed out, oldest first
  dirty,       \* items that need processing
  processing,  \* items handed out and not Done
  delayed      \* items AddRateLimited holds until their backoff elapses

QueueTypeOK ==
  /\ queue \in Seq(Items)
  /\ dirty \subseteq Items
  /\ processing \subseteq Items
  /\ delayed \subseteq Items

QueueInit ==
  /\ queue = << >>
  /\ dirty = {}
  /\ processing = {}
  /\ delayed = {}

\* Add.
add(i) ==
  /\ dirty' = dirty \cup {i}
  /\ queue' = IF i \in dirty \cup processing THEN queue ELSE Append(queue, i)
  /\ UNCHANGED <<processing, delayed>>

\* Get returns i.
get(i) ==
  /\ queue # << >>
  /\ i = Head(queue)
  /\ queue' = Tail(queue)
  /\ dirty' = dirty \ {i}
  /\ processing' = processing \cup {i}
  /\ UNCHANGED delayed

\* Done, when the dirty items are d.
done(i, d) ==
  /\ dirty' = d
  /\ processing' = processing \ {i}
  /\ queue' = IF i \in d THEN Append(queue, i) ELSE queue

\* The backoff of a rate-limited item elapses, and it is added.
ripen(i) ==
  /\ i \in delayed
  /\ delayed' = delayed \ {i}
  /\ dirty' = dirty \cup {i}
  /\ queue' = IF i \in dirty \cup processing THEN queue ELSE Append(queue, i)
  /\ UNCHANGED processing
=============================================================================
