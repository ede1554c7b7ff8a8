----------------------------- MODULE EventCenter -----------------------------
(***************************************************************************)
(* libs/event EventCenter: listeners in one bucket per event type, and     *)
(* Publish(), which copies the bucket's handlers under the mutex and calls *)
(* them after it.  Modules subscribe to several types at once and give up  *)
(* all of them when one subscription is refused (NetStat::SubscribeEvents, *)
(* the event stream of http_media); other threads publish at any time.     *)
(***************************************************************************)
EXTENDS Integers, Sequences, FiniteSets

CONSTANTS EventTypes,         \* a sequence: the types an owner subscribes to, in order
          EventOwners,        \* the modules and connections that subscribe
          Publishers,         \* threads that publish
          MaxSubscriptions,   \* kDefaultMaxSubscriptions
          MaxTokenId          \* bound: subscriptions made

TypeSet == {EventTypes[k] : k \in DOMAIN EventTypes}

ASSUME EventCenterAssumption ==
    /\ MaxSubscriptions \in Nat \ {0} /\ MaxTokenId \in Nat
    /\ EventTypes \in Seq(TypeSet) /\ EventTypes # <<>>

VARIABLES
    ecListeners,   \* listeners_: type |-> its bucket of [id, tag]; a new listener goes to
                   \* the end with the next id, so that the ids are in bucket order
    ecTokens,      \* token_types_: id |-> type
    ecNext,        \* next_token_id_
    ecOwner,       \* owner |-> [at, held]: the type it subscribes next (0: none), its EventTokens
    ecPublish      \* thread |-> [rest, due, got]: handlers still to call; listeners
                   \* that stayed subscribed; listeners called so far

ecVars == <<ecListeners, ecTokens, ecNext, ecOwner, ecPublish>>

IdsOf(bucket) == {l.id : l \in bucket}
NoPublish == [rest |-> {}, due |-> {}, got |-> {}]

CenterInit ==
    /\ ecListeners = [t \in TypeSet |-> {}]
    /\ ecTokens = <<>> /\ ecNext = 1
    /\ ecOwner = [o \in EventOwners |-> [at |-> 0, held |-> {}]]
    /\ ecPublish = [p \in Publishers |-> NoPublish]

-----------------------------------------------------------------------------
(* Listeners leave: Cancel() of ids, Unsubscribe(), UnsubscribeTag(). *)
RemoveListeners(ids) ==
    /\ ecListeners' = [t \in TypeSet |-> {l \in ecListeners[t] : l.id \notin ids}]
    /\ ecTokens' = [i \in DOMAIN ecTokens \ ids |-> ecTokens[i]]
    /\ ecPublish' = [p \in Publishers |-> [ecPublish[p] EXCEPT !.due = @ \ ids]]

(* An owner starts to subscribe to every type. *)
SubscribeEvents(o) ==
    /\ ecOwner[o] = [at |-> 0, held |-> {}]
    /\ ecOwner' = [ecOwner EXCEPT ![o].at = 1]
    /\ UNCHANGED <<ecListeners, ecTokens, ecNext, ecPublish>>

EventTableHasRoom == Cardinality(DOMAIN ecTokens) < MaxSubscriptions

(* Subscribe(): a new listener at the end of its bucket. *)
Subscribe(o) ==
    /\ ecOwner[o].at # 0
    /\ EventTableHasRoom /\ ecNext <= MaxTokenId
    /\ LET t == EventTypes[ecOwner[o].at]
       IN /\ ecListeners' = [ecListeners EXCEPT ![t] = @ \union {[id |-> ecNext, tag |-> o]}]
          /\ ecTokens' = [i \in DOMAIN ecTokens \union {ecNext} |-> IF i = ecNext THEN t ELSE ecTokens[i]]
    /\ ecNext' = ecNext + 1
    /\ ecOwner' = [ecOwner EXCEPT ![o] = [at |-> (@.at + 1) % (Len(EventTypes) + 1), held |-> @.held \union {ecNext}]]
    /\ UNCHANGED ecPublish

(* The table is full: the owner cancels the tokens it already got. *)
SubscribeRefused(o) ==
    /\ ecOwner[o].at # 0 /\ ~EventTableHasRoom
    /\ RemoveListeners(ecOwner[o].held)
    /\ ecOwner' = [ecOwner EXCEPT ![o] = [at |-> 0, held |-> {}]]
    /\ UNCHANGED ecNext

(* The owner stops: each EventToken is cancelled, one after the other. *)
CancelToken(o, id) ==
    /\ ecOwner[o].at = 0 /\ id \in ecOwner[o].held
    /\ RemoveListeners({id})
    /\ ecOwner' = [ecOwner EXCEPT ![o].held = @ \ {id}]
    /\ UNCHANGED ecNext

TagIds(t, tag) == IdsOf({l \in ecListeners[t] : l.tag = tag})

(* Unsubscribe() of a type, UnsubscribeTag() of all: the owner's tokens stay *)
(* and cancel nothing later.                                                 *)
Unsubscribe(o, types) ==
    /\ ecOwner[o].at = 0 /\ UNION {TagIds(t, o) : t \in types} # {}
    /\ RemoveListeners(UNION {TagIds(t, o) : t \in types})
    /\ UNCHANGED <<ecNext, ecOwner>>

(* Publish(): the snapshot, then one handler after the other, in bucket order. *)
PublishBegin(p, t) ==
    /\ ecPublish[p].rest = {}
    /\ ecPublish' = [ecPublish EXCEPT ![p] = [rest |-> IdsOf(ecListeners[t]), due |-> IdsOf(ecListeners[t]), got |-> {}]]
    /\ UNCHANGED <<ecListeners, ecTokens, ecNext, ecOwner>>

EarliestOf(ids) == CHOOSE i \in ids : \A j \in ids : i <= j

(* Calling the live bucket by position instead of the snapshot. *)
CallHandlerLive(p) ==
    /\ ecPublish[p].rest # {}
    /\ LET at(ids) == {i \in ids : Cardinality({j \in ids : j < i}) = Cardinality(ecPublish[p].got)}
           live == {t \in TypeSet : IdsOf(ecListeners[t]) \intersect ecPublish[p].due # {}}
       IN ecPublish' = [ecPublish EXCEPT ![p].rest = @ \ {EarliestOf(@)},
                                         ![p].got = @ \union UNION {at(IdsOf(ecListeners[t])) : t \in live}]
    /\ UNCHANGED <<ecListeners, ecTokens, ecNext, ecOwner>>

CallHandler(p) ==
    /\ ecPublish[p].rest # {}
    /\ ecPublish' = [ecPublish EXCEPT ![p].rest = @ \ {EarliestOf(@)}, ![p].got = @ \union {EarliestOf(ecPublish[p].rest)}]
    /\ UNCHANGED <<ecListeners, ecTokens, ecNext, ecOwner>>

CenterNext ==
    \/ \E o \in EventOwners :
         \/ SubscribeEvents(o) \/ Subscribe(o) \/ SubscribeRefused(o)
         \/ \E id \in ecOwner[o].held : CancelToken(o, id)
         \/ \E types \in {TypeSet} \union {{t} : t \in TypeSet} : Unsubscribe(o, types)
    \/ \E p \in Publishers : CallHandler(p) \/ \E t \in TypeSet : PublishBegin(p, t)

CenterSpec == CenterInit /\ [][CenterNext]_ecVars

-----------------------------------------------------------------------------
(* Types of the state; there are never more than 256 subscriptions. *)
CenterTypeOK ==
    /\ \A t \in TypeSet : \A l \in ecListeners[t] : l.tag \in EventOwners
    /\ DOMAIN ecTokens \subseteq 1 .. (ecNext - 1)
    /\ Cardinality(DOMAIN ecTokens) <= MaxSubscriptions
    /\ \A o \in EventOwners : ecOwner[o].at \in 0 .. Len(EventTypes)

(* token_types_ and the buckets agree: a token cancels exactly one listener,  *)
(* and no cancelled listener counts against the limit.                        *)
TokensMatchListeners ==
    /\ DOMAIN ecTokens = UNION {IdsOf(ecListeners[t]) : t \in TypeSet}
    /\ \A t \in TypeSet : \A i \in IdsOf(ecListeners[t]) : ecTokens[i] = t

(* Every listener belongs to a token some owner still holds: a subscription  *)
(* refused half way, or any order of cancels, leaves none behind.            *)
NoOrphanListener ==
    \A t \in TypeSet : \A l \in ecListeners[t] : l.id \in ecOwner[l.tag].held

(* A listener that stays subscribed while an event is published is called     *)
(* exactly once, whoever subscribes or cancels meanwhile.                     *)
SubscribedIsCalled ==
    \A p \in Publishers :
        /\ ecPublish[p].due \subseteq ecPublish[p].got \union ecPublish[p].rest
        /\ ecPublish[p].got \intersect ecPublish[p].rest = {}

\* Tokens and listeners agree through failing subscriptions and removals, and a
\* publication reaches every listener that was there for all of it, once.  One
\* cancelled after the snapshot was taken may still be called (event_center.cpp:150).
ListenersExact ==
    /\ CenterTypeOK /\ TokensMatchListeners /\ NoOrphanListener
    /\ SubscribedIsCalled
=============================================================================
