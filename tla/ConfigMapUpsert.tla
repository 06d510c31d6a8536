--------------------------- MODULE ConfigMapUpsert ---------------------------
(***************************************************************************)
(* What the artifact reconciler promises (spec 4.5, "upsert"), stated      *)
(* without the store's protocol: a caller hands over a content; the call   *)
(* either returns nil, and at that moment the ConfigMap holds exactly that *)
(* content, written at most once, or it returns an error without having   *)
(* written anything.  The ConfigMap may also be deleted by the deletion    *)
(* hooks.  Get, resourceVersion, Create and Update are hidden.             *)
(***************************************************************************)

CONSTANTS
    Callers,    \* the hook invocations that call the reconciler
    Contents,   \* the contents a caller may hand over
    Absent,     \* the value of the store while no ConfigMap exists
    NoCall      \* the call of a caller with no call in progress

ASSUME Absent \notin Contents /\ NoCall \notin Contents

VARIABLES
    store,      \* the content of the ConfigMap, or Absent
    call,       \* call[c]: the content caller c is upserting, or NoCall
    result      \* result[c]: what c's last call returned, "nil" or "err",
                \* or "none" once the caller has acted on it

vars == <<store, call, result>>

Init ==
    /\ store = Absent
    /\ call = [c \in Callers |-> NoCall]
    /\ result = [c \in Callers |-> "none"]

\* A caller starts an upsert.
Begin(c) ==
    /\ call[c] = NoCall
    /\ \E x \in Contents : call' = [call EXCEPT ![c] = x]
    /\ UNCHANGED <<store, result>>

\* The upsert returns nil: the ConfigMap holds the caller's content.
Return(c) ==
    /\ call[c] # NoCall
    /\ store' = call[c]
    /\ call' = [call EXCEPT ![c] = NoCall]
    /\ result' = [result EXCEPT ![c] = "nil"]

\* The upsert returns an error and leaves the ConfigMap as it was.
Fail(c) ==
    /\ call[c] # NoCall
    /\ call' = [call EXCEPT ![c] = NoCall]
    /\ result' = [result EXCEPT ![c] = "err"]
    /\ UNCHANGED store

\* Callers with no call in progress act on their results.
Consume ==
    /\ \E S \in SUBSET {c \in Callers : call[c] = NoCall} :
          result' = [c \in Callers |-> IF c \in S THEN "none" ELSE result[c]]
    /\ UNCHANGED <<store, call>>

Delete ==
    /\ store' = Absent
    /\ UNCHANGED <<call, result>>

Next == Consume \/ Delete \/ \E c \in Callers : Begin(c) \/ Return(c) \/ Fail(c)

Spec == Init /\ [][Next]_vars

=============================================================================
