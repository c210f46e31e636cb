--------------------------- MODULE Contributions ----------------------------
(***************************************************************************)
(* Contributions to extension points: contributions/contribution-store.ts   *)
(* with the notifications of observation/snapshot-view.ts.                  *)
(*                                                                         *)
(* A plugin instance claims a key of an extension point.  The store of the  *)
(* extension point publishes the keys that are claimed, in order, and lends  *)
(* the values.  During a transition the registry collects the changes of    *)
(* all stores in a batch; subscribers are told at its end.  A store exists  *)
(* as long as something refers to it.                                       *)
(*                                                                         *)
(* Everything is synchronous.  Subscribers are notified one by one, and each *)
(* may call back before the next one is told.  Viewers are consumers whose   *)
(* owner accepts work: a closed one refuses calls and is not told any more,  *)
(* and what it owned goes by DisposeClaim, CloseView and Unsubscribe.        *)
(*                                                                         *)
(* A Map and a list of distinct keys are their orders: the set of all pairs *)
(* <<x, y>> such that x is y or stands before y.                            *)
(***************************************************************************)
EXTENDS Integers

CONSTANTS
    Tokens,     \* extension points
    Claims,     \* contributions, each added once
    TokenOf,    \* the extension point of a contribution
    KeyOf,      \* its id, made of the installation and the key
    Viewers,    \* consumers with a view of their own
    ViewOf,     \* the extension point a consumer looks at
    MaxStores,  \* bound on the stores made for one extension point
    MaxValue,   \* bound on the updates of one contribution
    None

ASSUME ContributionAssumption ==
    /\ TokenOf \in [Claims -> Tokens] /\ DOMAIN KeyOf = Claims
    /\ ViewOf \in [Viewers -> Tokens]
    /\ MaxStores \in Nat /\ MaxValue \in Nat

VARIABLES
    made,         \* how many stores an extension point has had
    live,         \* extension points with a store in #stores
    claims,       \* #claims of that store, in order
    phase,        \* of a claim
    home,         \* the store a claim was made in
    value,        \* what it contributes
    snapshot,     \* #snapshot: the keys subscribers can read
    pinned,       \* stores with a Host view
    view,         \* the store a consumer has a view of, or 0
    subscribed,   \* the store it is subscribed to, or 0
    pending,      \* pendingSubscriptions: who is still to be told
    seen,         \* what a subscriber read when it was last told
    batch,        \* #batchDepth: is a transition under way?
    invalidated   \* #invalidated

storeVars == <<made, live, pinned>>
claimVars == <<claims, phase, home, value>>
viewVars  == <<view, subscribed, seen>>
vars == <<storeVars, claimVars, viewVars, snapshot, pending, batch, invalidated>>

Keys == {KeyOf[c] : c \in Claims}
Values == UNION {[K -> (0..MaxValue) \union {None}] : K \in SUBSET Keys}
Nothing == [keys |-> {}, values |-> [k \in {} |-> None]]

TypeOK ==
    /\ made \in [Tokens -> 0..MaxStores] /\ live \in SUBSET Tokens
    /\ claims \in [Tokens -> SUBSET (Claims \X Claims)]
    /\ phase \in [Claims -> {"none", "staged", "pending", "published", "disposed"}]
    /\ home \in [Claims -> 0..MaxStores] /\ value \in [Claims -> 0..MaxValue]
    /\ snapshot \in [Tokens -> SUBSET (Keys \X Keys)] /\ pinned \in SUBSET Tokens
    /\ view \in [Viewers -> 0..MaxStores] /\ subscribed \in [Viewers -> 0..MaxStores]
    /\ pending \in SUBSET Viewers
    /\ seen \in [Viewers -> [keys : SUBSET (Keys \X Keys), values : Values]]
    /\ batch \in BOOLEAN /\ invalidated \in SUBSET Tokens

Init ==
    /\ made = [t \in Tokens |-> 0] /\ live = {}
    /\ claims = [t \in Tokens |-> {}] /\ phase = [c \in Claims |-> "none"]
    /\ home = [c \in Claims |-> 0] /\ value = [c \in Claims |-> 0]
    /\ snapshot = [t \in Tokens |-> {}] /\ pinned = {}
    /\ view = [v \in Viewers |-> 0] /\ subscribed = [v \in Viewers |-> 0]
    /\ pending = {} /\ seen = [v \in Viewers |-> Nothing]
    /\ batch = FALSE /\ invalidated = {}

-----------------------------------------------------------------------------
(* What is published.                                                      *)

\* What an order orders, with a new last element, and without an element.
Members(m) == {p[1] : p \in m}
Inserted(m, c) == m \union {<<d, c>> : d \in Members(m) \union {c}}
Deleted(m, c) == {p \in m : p[1] # c /\ p[2] # c}

Claimed(t, k) == \E c \in Members(claims[t]) : KeyOf[c] = k

\* The keys of the claims that are not just staged.
Shown(cs, ph) == {p \in cs : ph[p[1]] # "staged" /\ ph[p[2]] # "staged"}
Ids(cs, ph) == {<<KeyOf[p[1]], KeyOf[p[2]]>> : p \in Shown(cs, ph)}

\* Mutant: only new keys and new values count, not that keys have gone.
OnlyNews(t, cs, ph) == \E c \in Members(cs) : ph[c] = "pending"
\* publishSnapshot: is there anything to tell?
Changed(t, cs, ph) ==
    \/ \E c \in Members(cs) : ph[c] = "pending"
    \/ Ids(cs, ph) # snapshot[t]

\* What a reader gets of a published key: the value its claim lends.
Lent(t, k) ==
    LET cs == {c \in Members(claims[t]) : KeyOf[c] = k /\ phase[c] = "published"}
    IN  IF cs = {} THEN None ELSE value[CHOOSE c \in cs : TRUE]
Reading(t) == [keys |-> snapshot[t], values |-> [k \in Members(snapshot[t]) |-> Lent(t, k)]]

Subscribers(t) == {v \in Viewers : ViewOf[v] = t /\ subscribed[v] # 0}

\* invalidate: whoever is subscribed to a store of T is to be told.
Told(T) == pending \union UNION {Subscribers(t) : t \in T}

\* publishSnapshot of the stores T, given the claims and their phases.
PublishSnapshots(T, cs, ph) ==
    LET changed == {t \in T : Changed(t, cs[t], ph)}
    IN  /\ snapshot' = [t \in Tokens |->
                          IF t \in changed THEN Ids(cs[t], ph) ELSE snapshot[t]]
        /\ phase' = [c \in Claims |->
                       IF TokenOf[c] \in T /\ ph[c] = "pending" THEN "published" ELSE ph[c]]
        /\ pending' = Told(changed)

\* Mutant: changes are published at once.
Impatient == FALSE
Batching == batch

\* #invalidate: publish at once unless a transition is under way.
Invalidate(t, cs, ph) ==
    /\ claims' = [claims EXCEPT ![t] = cs]
    /\ IF Batching
       THEN /\ phase' = ph /\ invalidated' = invalidated \union {t}
            /\ UNCHANGED <<snapshot, pending>>
       ELSE /\ PublishSnapshots({t}, [claims EXCEPT ![t] = cs], ph)
            /\ UNCHANGED invalidated

-----------------------------------------------------------------------------
(* Stores.                                                                 *)

\* get(): the store of an extension point, made when it is missing.
Get(t) ==
    /\ t \in live \/ made[t] < MaxStores
    /\ made' = [made EXCEPT ![t] = IF t \in live THEN @ ELSE @ + 1]
    /\ live' = live \union {t}
Store(t) == IF t \in live THEN made[t] ELSE made[t] + 1

\* Mutant: subscriptions do not count.
UsedByClaimsAndViews(t) ==
    \/ t \in pinned \/ claims'[t] # {}
    \/ \E v \in Viewers : ViewOf[v] = t /\ view'[v] # 0
\* #notifyIfUnused: does anything refer to the store after this step?
Used(t) ==
    \/ t \in pinned \/ claims'[t] # {}
    \/ \E v \in Viewers : ViewOf[v] = t /\ (view'[v] # 0 \/ subscribed'[v] # 0)

\* The registry's release callback.
Discarded(t, S) == IF t \in live' THEN S ELSE S \ {t}

\* A store that is not used any more is released; snapshots of the others stay.
ReleaseIfUnused(t) ==
    /\ live' = IF Used(t) THEN live ELSE live \ {t}
    /\ UNCHANGED <<made, pinned>>
Retained(t) == [snapshot EXCEPT ![t] = IF t \in live' THEN @ ELSE {}]

-----------------------------------------------------------------------------
(* Claims.                                                                 *)

\* stage() by a candidate: the claim is hidden until the commit.
Stage(c) ==
    LET t == TokenOf[c] IN
    /\ phase[c] = "none" /\ ~Claimed(t, KeyOf[c])
    /\ Get(t)
    /\ claims' = [claims EXCEPT ![t] = Inserted(@, c)]
    /\ phase' = [phase EXCEPT ![c] = "staged"]
    /\ home' = [home EXCEPT ![c] = Store(t)]
    /\ UNCHANGED <<pinned, value, viewVars, snapshot, pending, batch, invalidated>>

\* stage() by a committed instance: published in the same call.
Add(c) ==
    LET t == TokenOf[c] IN
    /\ phase[c] = "none" /\ ~Claimed(t, KeyOf[c])
    /\ Get(t)
    /\ Invalidate(t, Inserted(claims[t], c), [phase EXCEPT ![c] = "pending"])
    /\ home' = [home EXCEPT ![c] = Store(t)]
    /\ UNCHANGED <<pinned, value, viewVars, batch>>

\* publishClaim at the commit: the claim moves behind those published before.
Publish(c) ==
    LET t == TokenOf[c] IN
    /\ batch /\ pending = {} /\ phase[c] = "staged"
    /\ Invalidate(t, Inserted(Deleted(claims[t], c), c), [phase EXCEPT ![c] = "pending"])
    /\ UNCHANGED <<storeVars, home, value, viewVars, batch>>

Active(c) == phase[c] \in {"staged", "pending", "published"}

\* valueChanged: nobody sees a staged value, the others are published again.
ValueChanged(c) ==
    IF phase[c] = "staged"
    THEN UNCHANGED <<claims, phase, snapshot, pending, invalidated>>
    ELSE Invalidate(TokenOf[c], claims[TokenOf[c]], [phase EXCEPT ![c] = "pending"])

\* update() with another value.
Update(c) ==
    /\ Active(c) /\ value[c] < MaxValue
    /\ value' = [value EXCEPT ![c] = @ + 1]
    /\ ValueChanged(c)
    /\ UNCHANGED <<storeVars, home, viewVars, batch>>

\* removeContribution: the others are published, and the store may go.
ClaimRemoved(c) ==
    LET t == TokenOf[c]
        cs == [claims EXCEPT ![t] = Deleted(@, c)]
        ph == [phase EXCEPT ![c] = "disposed"]
        silent == phase[c] = "staged" \/ Batching
    IN
    /\ claims' = cs
    /\ ReleaseIfUnused(t)
    /\ IF silent
       THEN phase' = ph /\ snapshot' = Retained(t) /\ UNCHANGED pending
       ELSE PublishSnapshots({t}, cs, ph)
    /\ invalidated' = Discarded(t, IF Batching /\ phase[c] # "staged"
                                   THEN invalidated \union {t} ELSE invalidated)

\* The contribution is disposed, by its handle or with its owner.
DisposeClaim(c) ==
    /\ Active(c)
    /\ UNCHANGED <<home, value, viewVars, batch>>
    /\ ClaimRemoved(c)

-----------------------------------------------------------------------------
(* Views and subscriptions.                                                *)

HostView(t) ==
    /\ t \notin pinned /\ Get(t) /\ pinned' = pinned \union {t}
    /\ UNCHANGED <<claimVars, viewVars, snapshot, pending, batch, invalidated>>

OpenView(v) ==
    /\ view[v] = 0 /\ Get(ViewOf[v])
    /\ view' = [view EXCEPT ![v] = Store(ViewOf[v])]
    /\ UNCHANGED <<pinned, claimVars, subscribed, seen, snapshot, pending, batch, invalidated>>

\* The subscription is not replayed; the subscriber has read what there is.
Subscribe(v) ==
    /\ view[v] # 0 /\ subscribed[v] = 0
    /\ subscribed' = [subscribed EXCEPT ![v] = view[v]]
    /\ seen' = [seen EXCEPT ![v] = Reading(ViewOf[v])]
    /\ UNCHANGED <<storeVars, claimVars, view, snapshot, pending, batch, invalidated>>

\* A consumer lets go of a reference, and the last one of the store.
LetGo(v) ==
    /\ UNCHANGED <<claimVars, batch>>
    /\ ReleaseIfUnused(ViewOf[v])
    /\ invalidated' = Discarded(ViewOf[v], invalidated)
    /\ snapshot' = Retained(ViewOf[v])

CloseView(v) ==
    /\ view[v] # 0 /\ view' = [view EXCEPT ![v] = 0]
    /\ UNCHANGED <<subscribed, seen, pending>>
    /\ LetGo(v)

Unsubscribe(v) ==
    /\ subscribed[v] # 0 /\ subscribed' = [subscribed EXCEPT ![v] = 0]
    /\ seen' = [seen EXCEPT ![v] = Nothing]
    /\ pending' = pending \ {v}
    /\ UNCHANGED view
    /\ LetGo(v)

\* flushNotifications: a subscriber is told and reads its view.
Notify(v) ==
    /\ v \in pending
    /\ pending' = pending \ {v}
    /\ seen' = [seen EXCEPT ![v] = Reading(ViewOf[v])]
    /\ UNCHANGED <<storeVars, claimVars, view, subscribed, snapshot, batch, invalidated>>

-----------------------------------------------------------------------------
(* Transitions.  They begin and end outside of any notification.           *)

BeginBatch ==
    /\ ~batch /\ pending = {} /\ batch' = TRUE
    /\ UNCHANGED <<storeVars, claimVars, viewVars, snapshot, pending, invalidated>>

\* All snapshots are committed before the first subscriber is told.
EndBatch ==
    /\ batch /\ pending = {} /\ batch' = FALSE
    /\ PublishSnapshots(invalidated, claims, phase)
    /\ invalidated' = {}
    /\ UNCHANGED <<storeVars, claims, home, value, viewVars>>

Next ==
    \/ \E c \in Claims : \/ Stage(c) \/ Add(c) \/ Publish(c)
                         \/ Update(c) \/ DisposeClaim(c)
    \/ \E t \in Tokens : HostView(t)
    \/ \E v \in Viewers : OpenView(v) \/ Subscribe(v) \/ CloseView(v)
                          \/ Unsubscribe(v) \/ Notify(v)
    \/ BeginBatch \/ EndBatch

Spec == Init /\ [][Next]_vars

-----------------------------------------------------------------------------
(* Safety.                                                                 *)

\* Outside transitions the published keys of every extension point are exactly
\* the claimed ones, in order, and whoever is subscribed and not about to be
\* told has seen them with their present values, whatever other subscribers
\* did while they were told (contribution-store.ts 348-361, snapshot-view.ts
\* 52-69, 105-110).
SubscribersSeeTheFinalSet ==
    ~batch => \A t \in Tokens :
        /\ snapshot[t] = Ids(claims[t], phase)
        /\ \A v \in Subscribers(t) \ pending : seen[v] = Reading(t)

\* An extension point has a store exactly as long as something refers to it,
\* all refer to the same one, and no batch will publish a store that has been
\* released (contribution-store.ts 371-388, 448-463).
StoresAreExact ==
    /\ invalidated \subseteq live
    /\ \A t \in Tokens : t \in live <=>
         \/ t \in pinned \/ claims[t] # {}
         \/ \E v \in Viewers : ViewOf[v] = t /\ (view[v] # 0 \/ subscribed[v] # 0)
    /\ \A c \in Claims : c \in Members(claims[TokenOf[c]]) => home[c] = made[TokenOf[c]]
    /\ \A v \in Viewers : {view[v], subscribed[v]} \subseteq {0, made[ViewOf[v]]}

-----------------------------------------------------------------------------
\* A transition is published as a whole: while it runs, nobody is told anything
\* and nobody reads a changed list of keys (engine.ts 412-413, 496).
TransitionsAreAtomic ==
    [][batch /\ batch' =>
         /\ pending' \subseteq pending
         /\ \A t \in live \intersect live' : snapshot'[t] = snapshot[t]]_vars
=============================================================================
