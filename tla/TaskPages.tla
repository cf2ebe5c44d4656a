------------------------------- MODULE TaskPages -------------------------------
(* The GraphQL resolvers of lab 21: tasks are submitted while a reader asks for
   page after page by cursor and a subscriber runs through the event list.  Each
   resolver, and each event a subscription yields, is one step.  Schema, parsing
   and the rendering of cursors belong to the library. *)
EXTENDS Integers, Sequences, FiniteSets

CONSTANTS Id, Action, First    \* page sizes

VARIABLES records,     \* the tasks in the order of their submission
          refused,     \* submissions answered with an error
          page,        \* the reader's cursor and what it has read
          stream       \* the subscription's position and what it has yielded
vars == <<records, refused, page, stream>>

NoCursor == -1

Init ==
    /\ records = <<>>
    /\ refused = {}
    /\ page = [after |-> NoCursor, read |-> <<>>]
    /\ stream = [next |-> 1, after |-> 0, yielded |-> <<>>, open |-> TRUE]

Rebinds(id, action) == \E i \in DOMAIN records : records[i].id = id /\ records[i].action # action
Known(id) == \E i \in DOMAIN records : records[i].id = id

\* A task that exists is answered as it is, unless another action is asked of it.
Submit(id, action) ==
    /\ records' = IF Known(id) THEN records
                  ELSE Append(records, [id |-> id, action |-> action, sequence |-> Len(records) + 1])
    /\ refused' = IF Rebinds(id, action) THEN refused \union {<<id, action>>} ELSE refused
    /\ UNCHANGED <<page, stream>>

Offset(after) == IF after = NoCursor THEN 0 ELSE after + 1

Page(first, after) ==
    SubSeq(records, Offset(after) + 1,
           IF Offset(after) + first < Len(records) THEN Offset(after) + first ELSE Len(records))

\* An empty page has no end cursor: the reader asks again with the one it has.
ReadPage(first) ==
    LET got == Page(first, page.after)
    IN /\ page' = [after |-> IF got = <<>> THEN page.after
                             ELSE Offset(page.after) + Len(got) - 1,
                   read |-> page.read \o got]
       /\ UNCHANGED <<records, refused, stream>>

\* The generator looks at the list as it is when it is resumed, and ends when it has
\* passed its last event.
Yield ==
    /\ stream.open
    /\ stream' = IF stream.next > Len(records) THEN [stream EXCEPT !.open = FALSE]
                 ELSE [stream EXCEPT !.next = @ + 1,
                          !.yielded = IF records[stream.next].sequence > stream.after
                                      THEN Append(@, stream.next) ELSE @]
    /\ UNCHANGED <<records, refused, page>>

\* A subscriber starts again after the last event it was given.
Resubscribe ==
    /\ ~stream.open /\ stream.after < Len(stream.yielded)
    /\ stream' = [stream EXCEPT !.open = TRUE, !.next = 1, !.after = Len(stream.yielded)]
    /\ UNCHANGED <<records, refused, page>>

Next ==
    \/ \E id \in Id, action \in Action : Submit(id, action)
    \/ \E first \in First : ReadPage(first)
    \/ Yield \/ Resubscribe

Spec == Init /\ [][Next]_vars

-----------------------------------------------------------------------------

\* Pages of any size and subscriptions begun anew see every task once, in the order of
\* submission, while tasks are added, and no task is bound to two actions.
PagesComplete ==
    /\ page.read = SubSeq(records, 1, Len(page.read))
    /\ stream.yielded = [i \in DOMAIN stream.yielded |-> i]
    /\ \A r \in refused : \A i \in DOMAIN records : records[i] # [id |-> r[1], action |-> r[2], sequence |-> i]
    /\ Cardinality({records[i].id : i \in DOMAIN records}) = Len(records)
=============================================================================
