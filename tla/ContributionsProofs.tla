------------------------- MODULE ContributionsProofs ------------------------
(***************************************************************************)
(* Proofs about Contributions, for any extension points, contributions and  *)
(* consumers.                                                               *)
(*                                                                         *)
(* What subscribers have seen is right only between transitions, so the     *)
(* invariant says what they know meanwhile: a value that is still published *)
(* was published when the transition began, and has not changed.            *)
(***************************************************************************)
EXTENDS Contributions, TLAPS

\* The claims of a store belong to it, each to a key of its own.
Sorted(cs, ph) ==
    /\ \A t \in Tokens : \A p \in cs[t] : <<p[1], p[1]>> \in cs[t] /\ <<p[2], p[2]>> \in cs[t]
    /\ \A t \in Tokens : \A c \in Members(cs[t]) :
         /\ TokenOf[c] = t /\ ph[c] \in {"staged", "pending", "published"}
         /\ \A d \in Members(cs[t]) : KeyOf[d] = KeyOf[c] => d = c
    /\ \A c \in Claims : ph[c] \in {"staged", "pending", "published"} =>
                            c \in Members(cs[TokenOf[c]])

\* Only a transition leaves something to publish, and tells nobody.
Batched == IF batch THEN pending = {} ELSE invalidated = {}

\* What is published is in the list, and the list is complete unless the
\* transition will publish another.
Shows(cs, ph) ==
    \A t \in Tokens :
        /\ \A c \in Members(cs[t]) : ph[c] = "published" => KeyOf[c] \in Members(snapshot[t])
        /\ t \notin invalidated =>
             /\ snapshot[t] = Ids(cs[t], ph)
             /\ \A c \in Members(cs[t]) : ph[c] # "pending"

\* Who is not to be told knows the list, and every value that is published.
Knows(v, cs, ph, val) ==
    /\ seen[v].keys = snapshot[ViewOf[v]]
    /\ DOMAIN seen[v].values = Members(snapshot[ViewOf[v]])
    /\ \A c \in Members(cs[ViewOf[v]]) :
         ph[c] = "published" => seen[v].values[KeyOf[c]] = val[c]
Tells(cs, ph, val) ==
    \A v \in Viewers \ pending : subscribed[v] # 0 => Knows(v, cs, ph, val)

\* Stores are numbered from one.
Numbered == \A t \in live : made[t] # 0

IInv == /\ TypeOK /\ Sorted(claims, phase) /\ Batched /\ Shows(claims, phase)
        /\ Tells(claims, phase, value) /\ StoresAreExact /\ Numbered

-----------------------------------------------------------------------------
(* Orders.                                                                 *)

Reflexive(m) == \A p \in m : <<p[1], p[1]>> \in m /\ <<p[2], p[2]>> \in m

LEMMA InsertedFacts ==
    ASSUME NEW m \in SUBSET (Claims \X Claims), NEW c \in Claims, Reflexive(m)
    PROVE  /\ Inserted(m, c) \in SUBSET (Claims \X Claims) /\ Reflexive(Inserted(m, c))
           /\ Members(Inserted(m, c)) = Members(m) \union {c} /\ Members(m) \subseteq Claims
<1>1. Members(m) \subseteq Claims
  BY DEF Members
<1>2. Inserted(m, c) \in SUBSET (Claims \X Claims)
  BY <1>1 DEF Inserted
<1>3. \A p \in Inserted(m, c) : p[1] \in Members(m) \union {c} /\ p[2] \in Members(m) \union {c}
  <2>1. ASSUME NEW p \in m PROVE p[1] \in Members(m) /\ p[2] \in Members(m)
    <3>1. <<p[1], p[1]>>[1] \in Members(m) /\ <<p[2], p[2]>>[1] \in Members(m)
      BY DEF Members, Reflexive
    <3> QED BY <3>1
  <2> QED BY <2>1 DEF Inserted
<1>4. \A d \in Members(m) \union {c} : <<d, d>> \in Inserted(m, c)
  BY DEF Inserted, Members, Reflexive
<1>5. Members(Inserted(m, c)) = Members(m) \union {c}
  BY <1>3, <1>4 DEF Members
<1> QED BY <1>1, <1>2, <1>3, <1>4, <1>5 DEF Reflexive

LEMMA DeletedFacts ==
    ASSUME NEW m \in SUBSET (Claims \X Claims), NEW c, Reflexive(m)
    PROVE  /\ Deleted(m, c) \in SUBSET (Claims \X Claims) /\ Reflexive(Deleted(m, c))
           /\ Members(Deleted(m, c)) = Members(m) \ {c}
<1>1. Deleted(m, c) \in SUBSET (Claims \X Claims) /\ Reflexive(Deleted(m, c))
  BY DEF Deleted, Reflexive
<1>2. \A d \in Members(m) \ {c} : <<d, d>> \in Deleted(m, c)
  BY DEF Deleted, Members, Reflexive
<1>3. \A p \in Deleted(m, c) : p[1] \in Members(m) \ {c}
  BY DEF Deleted, Members
<1> QED BY <1>1, <1>2, <1>3 DEF Members

\* The keys in the list are those of the claims that are not just staged.
LEMMA IdsFacts ==
    ASSUME NEW m \in SUBSET (Claims \X Claims), NEW ph, Reflexive(m)
    PROVE  /\ Ids(m, ph) \in SUBSET (Keys \X Keys)
           /\ \A k : k \in Members(Ids(m, ph)) <=>
                     \E c \in Members(m) : ph[c] # "staged" /\ KeyOf[c] = k
<1>1. \A p \in m : p[1] \in Claims /\ p[2] \in Claims /\ p[1] \in Members(m)
  BY DEF Members
<1>2. Ids(m, ph) \in SUBSET (Keys \X Keys)
  BY <1>1 DEF Ids, Shown, Keys
<1>3. ASSUME NEW k, k \in Members(Ids(m, ph))
      PROVE  \E c \in Members(m) : ph[c] # "staged" /\ KeyOf[c] = k
  BY <1>1, <1>3 DEF Members, Ids, Shown
<1>4. ASSUME NEW c \in Members(m), ph[c] # "staged" PROVE KeyOf[c] \in Members(Ids(m, ph))
  <2>1. <<c, c>> \in Shown(m, ph)
    BY <1>4 DEF Members, Reflexive, Shown
  <2>2. <<KeyOf[c], KeyOf[c]>> \in Ids(m, ph)
    BY <2>1 DEF Ids
  <2> QED BY <2>2 DEF Members
<1> QED BY <1>2, <1>3, <1>4

\* The list depends only on who is not staged.
LEMMA IdsAgree ==
    ASSUME NEW m \in SUBSET (Claims \X Claims), NEW n \in SUBSET (Claims \X Claims),
           NEW ph, NEW qh,
           \A p : p \in Shown(m, ph) <=> p \in Shown(n, qh)
    PROVE  Ids(m, ph) = Ids(n, qh)
<1>1. Shown(m, ph) = Shown(n, qh)
  OBVIOUS
<1> QED BY <1>1 DEF Ids

\* Who is not subscribed has seen nothing.
LEMMA NothingFacts == Nothing \in [keys : SUBSET (Keys \X Keys), values : Values]
<1>1. [k \in {} |-> None] \in [{} -> (0..MaxValue) \union {None}]
  OBVIOUS
<1>2. [{} -> (0..MaxValue) \union {None}] \in {[K -> (0..MaxValue) \union {None}] : K \in SUBSET Keys}
  OBVIOUS
<1>3. [k \in {} |-> None] \in Values
  BY <1>1, <1>2 DEF Values
<1> QED BY <1>3 DEF Nothing

LEMMA InitInvariant == Init => IInv
<1> SUFFICES ASSUME Init PROVE IInv
  OBVIOUS
<1>1. Nothing \in [keys : SUBSET (Keys \X Keys), values : Values]
  BY NothingFacts
<1>2. MaxStores \in Nat /\ MaxValue \in Nat
  BY ContributionAssumption
<1>3. TypeOK
  <2> HIDE DEF Nothing
  <2>1. 0 \in 0..MaxStores /\ 0 \in 0..MaxValue
    BY <1>2
  <2> QED BY <1>1, <2>1 DEF Init, TypeOK
<1>4. \A t \in Tokens : claims[t] = {} /\ Members(claims[t]) = {} /\ Ids(claims[t], phase) = {}
  BY DEF Init, Members, Ids, Shown
<1>5. Sorted(claims, phase) /\ Shows(claims, phase)
  BY <1>4 DEF Init, Sorted, Shows
<1>6. Batched /\ Tells(claims, phase, value) /\ Numbered
  BY DEF Init, Batched, Tells, Numbered
<1>7. StoresAreExact
  <2>1. TokenOf \in [Claims -> Tokens]
    BY ContributionAssumption
  <2> QED BY <1>4, <2>1 DEF Init, StoresAreExact
<1> QED BY <1>3, <1>5, <1>6, <1>7 DEF IInv

-----------------------------------------------------------------------------
(* What is published.                                                      *)

Phases == {"none", "staged", "pending", "published", "disposed"}

LEMMA Constants ==
    /\ TokenOf \in [Claims -> Tokens] /\ ViewOf \in [Viewers -> Tokens]
    /\ MaxStores \in Nat /\ MaxValue \in Nat
BY ContributionAssumption

\* A reader gets what the published claim of a key lends.
LEMMA LentFacts ==
    ASSUME TypeOK, Sorted(claims, phase), NEW t \in Tokens
    PROVE  /\ \A k : Lent(t, k) \in (0..MaxValue) \union {None}
           /\ \A c \in Members(claims[t]) : phase[c] = "published" => Lent(t, KeyOf[c]) = value[c]
<1>1. Members(claims[t]) \subseteq Claims
  BY DEF TypeOK, Members
<1>2. \A c \in Claims : value[c] \in 0..MaxValue
  BY DEF TypeOK
<1>3. ASSUME NEW k PROVE Lent(t, k) \in (0..MaxValue) \union {None}
  <2> DEFINE cs == {c \in Members(claims[t]) : KeyOf[c] = k /\ phase[c] = "published"}
  <2>1. CASE cs = {}
    BY <2>1 DEF Lent
  <2>2. CASE cs # {}
    <3>1. (CHOOSE c \in cs : TRUE) \in cs
      BY <2>2
    <3>2. Lent(t, k) = value[CHOOSE c \in cs : TRUE]
      BY <2>2 DEF Lent
    <3> HIDE DEF cs
    <3>3. (CHOOSE c \in cs : TRUE) \in Claims
      BY <1>1, <3>1 DEF cs
    <3> QED BY <1>2, <3>2, <3>3
  <2> QED BY <2>1, <2>2
<1>4. ASSUME NEW c \in Members(claims[t]), phase[c] = "published"
      PROVE  Lent(t, KeyOf[c]) = value[c]
  <2> DEFINE cs == {d \in Members(claims[t]) : KeyOf[d] = KeyOf[c] /\ phase[d] = "published"}
  <2>1. cs = {c}
    BY <1>4 DEF Sorted
  <2>2. Lent(t, KeyOf[c]) = IF cs = {} THEN None ELSE value[CHOOSE d \in cs : TRUE]
    BY DEF Lent
  <2> HIDE DEF cs
  <2> QED BY <2>1, <2>2
<1> QED BY <1>3, <1>4

\* Whoever reads knows.
LEMMA ReadingFacts ==
    ASSUME TypeOK, Sorted(claims, phase), Shows(claims, phase), NEW t \in Tokens
    PROVE  /\ Reading(t) \in [keys : SUBSET (Keys \X Keys), values : Values]
           /\ Reading(t).keys = snapshot[t]
           /\ DOMAIN Reading(t).values = Members(snapshot[t])
           /\ \A c \in Members(claims[t]) :
                phase[c] = "published" => Reading(t).values[KeyOf[c]] = value[c]
<1> DEFINE read == [k \in Members(snapshot[t]) |-> Lent(t, k)]
<1>1. snapshot[t] \in SUBSET (Keys \X Keys) /\ Members(snapshot[t]) \in SUBSET Keys
  BY DEF TypeOK, Members
<1>2. read \in Values
  <2>1. read \in [Members(snapshot[t]) -> (0..MaxValue) \union {None}]
    BY LentFacts
  <2> QED BY <1>1, <2>1 DEF Values
<1>3. \A c \in Members(claims[t]) : phase[c] = "published" => read[KeyOf[c]] = value[c]
  BY LentFacts DEF Shows
<1>4. DOMAIN read = Members(snapshot[t])
  OBVIOUS
<1> HIDE DEF read
<1>5. Reading(t) = [keys |-> snapshot[t], values |-> read]
  BY DEF Reading, read
<1> QED BY <1>1, <1>2, <1>3, <1>4, <1>5

\* Between transitions, who knows has seen what can be read.
LEMMA KnowingIsSeeing ==
    ASSUME IInv, NEW v \in Viewers, ViewOf[v] \notin invalidated, Knows(v, claims, phase, value)
    PROVE  seen[v] = Reading(ViewOf[v])
<1> DEFINE t == ViewOf[v]
<1>1. t \in Tokens /\ TypeOK /\ Sorted(claims, phase) /\ Shows(claims, phase)
  BY Constants DEF IInv
<1>2. claims[t] \in SUBSET (Claims \X Claims) /\ Reflexive(claims[t])
  BY <1>1 DEF TypeOK, Sorted, Reflexive
<1>3. snapshot[t] = Ids(claims[t], phase) /\ \A c \in Members(claims[t]) : phase[c] # "pending"
  BY <1>1 DEF Shows
<1>4. ASSUME NEW k \in Members(snapshot[t]) PROVE seen[v].values[k] = Lent(t, k)
  <2>1. PICK c \in Members(claims[t]) : phase[c] # "staged" /\ KeyOf[c] = k
    BY <1>2, <1>3, <1>4, IdsFacts
  <2>2. phase[c] = "published"
    BY <1>1, <1>3, <2>1 DEF Sorted
  <2> QED BY <1>1, <2>1, <2>2, LentFacts DEF Knows
<1>5. seen[v] \in [keys : SUBSET (Keys \X Keys), values : Values]
  BY <1>1 DEF TypeOK
<1>6. \E K \in SUBSET Keys : seen[v].values \in [K -> (0..MaxValue) \union {None}]
  BY <1>5 DEF Values
<1>7. seen[v].keys = snapshot[t] /\ DOMAIN seen[v].values = Members(snapshot[t])
  BY DEF Knows
<1>8. seen[v].values = [k \in Members(snapshot[t]) |-> Lent(t, k)]
  BY <1>4, <1>6, <1>7
<1> QED BY <1>5, <1>7, <1>8 DEF Reading

\* The stores T publish: whoever is concerned will be told, the others know all.
LEMMA PublishFacts ==
    ASSUME NEW T \in SUBSET Tokens, NEW ph \in [Claims -> Phases],
           TypeOK, claims' \in [Tokens -> SUBSET (Claims \X Claims)],
           Sorted(claims', ph), PublishSnapshots(T, claims', ph),
           seen' = seen, subscribed' = subscribed,
           \A t \in Tokens : \A c \in Members(claims'[t]) :
               /\ ph[c] = "pending" => t \in T
               /\ ph[c] = "published" => KeyOf[c] \in Members(snapshot[t]),
           \A t \in Tokens \ T : snapshot[t] = Ids(claims'[t], ph),
           Tells(claims', ph, value')
    PROVE  /\ snapshot' \in [Tokens -> SUBSET (Keys \X Keys)] /\ pending' \in SUBSET Viewers
           /\ phase' \in [Claims -> Phases]
           /\ Sorted(claims, phase)' /\ Shows(claims, phase)' /\ Tells(claims, phase, value)'
<1> DEFINE changed == {t \in T : Changed(t, claims'[t], ph)}
<1>1. /\ snapshot' = [t \in Tokens |-> IF t \in changed THEN Ids(claims'[t], ph) ELSE snapshot[t]]
      /\ phase' = [c \in Claims |->
                     IF TokenOf[c] \in T /\ ph[c] = "pending" THEN "published" ELSE ph[c]]
      /\ pending' = Told(changed)
  BY DEF PublishSnapshots
<1>2. \A t \in Tokens : /\ claims'[t] \in SUBSET (Claims \X Claims) /\ Reflexive(claims'[t])
                        /\ Members(claims'[t]) \subseteq Claims
  BY DEF Sorted, Reflexive, Members
<1>3. \A t \in T \ changed : /\ \A c \in Members(claims'[t]) : ph[c] # "pending"
                             /\ snapshot[t] = Ids(claims'[t], ph)
  BY DEF Changed
<1>4. \A t \in changed : \A v \in Viewers : ViewOf[v] = t /\ subscribed[v] # 0 => v \in pending'
  BY <1>1 DEF Told, Subscribers
<1>5. pending' \in SUBSET Viewers /\ pending \subseteq pending'
  BY <1>1 DEF Told, Subscribers, TypeOK
<1> HIDE DEF changed
<1>6. changed \subseteq T
  BY DEF changed
<1>7. snapshot' \in [Tokens -> SUBSET (Keys \X Keys)]
  BY <1>1, <1>2, IdsFacts DEF TypeOK
<1>8. phase' \in [Claims -> Phases]
  BY <1>1 DEF Phases
<1>9. \A c \in Claims : /\ phase'[c] = "staged" <=> ph[c] = "staged"
                        /\ phase'[c] = "published" => ph[c] \in {"published", "pending"}
                        /\ phase'[c] = "pending" => ph[c] = "pending" /\ TokenOf[c] \notin T
                        /\ phase'[c] \in {"staged", "pending", "published"} <=>
                             ph[c] \in {"staged", "pending", "published"}
  BY <1>1
<1>10. Sorted(claims', phase')
  BY <1>2, <1>9 DEF Sorted
<1>11. ASSUME NEW t \in Tokens
       PROVE  /\ snapshot'[t] = Ids(claims'[t], phase')
              /\ \A c \in Members(claims'[t]) : phase'[c] # "pending"
              /\ \A c \in Members(claims'[t]) : phase'[c] = "published" => KeyOf[c] \in Members(snapshot'[t])
  <2>1. snapshot'[t] = Ids(claims'[t], ph)
    BY <1>1, <1>3
  <2>2. Ids(claims'[t], ph) = Ids(claims'[t], phase')
    <3>1. \A p : p \in Shown(claims'[t], ph) <=> p \in Shown(claims'[t], phase')
      BY <1>2, <1>9 DEF Shown
    <3> QED BY <1>2, <3>1, IdsAgree
  <2>3. \A c \in Members(claims'[t]) : phase'[c] # "pending"
    BY <1>2, <1>9 DEF Sorted
  <2>4. \A c \in Members(claims'[t]) : phase'[c] = "published" => KeyOf[c] \in Members(snapshot'[t])
    BY <1>2, <2>1, <2>2, IdsFacts
  <2> QED BY <2>1, <2>2, <2>3, <2>4
<1>12. ASSUME NEW v \in Viewers \ pending', subscribed[v] # 0
       PROVE  /\ seen[v].keys = snapshot'[ViewOf[v]]
              /\ DOMAIN seen[v].values = Members(snapshot'[ViewOf[v]])
              /\ \A c \in Members(claims'[ViewOf[v]]) :
                   phase'[c] = "published" => seen[v].values[KeyOf[c]] = value'[c]
  <2>1. ViewOf[v] \in Tokens /\ ViewOf[v] \notin changed
    BY <1>4, <1>12, Constants
  <2>2. Knows(v, claims', ph, value') /\ snapshot'[ViewOf[v]] = snapshot[ViewOf[v]]
    BY <1>1, <1>5, <1>12, <2>1 DEF Tells
  <2>3. \A c \in Members(claims'[ViewOf[v]]) : ph[c] # "pending"
    BY <1>3, <2>1
  <2>4. \A c \in Members(claims'[ViewOf[v]]) : phase'[c] = "published" => ph[c] = "published"
    BY <1>2, <1>9, <2>1, <2>3
  <2> QED BY <2>2, <2>4 DEF Knows
<1>13. Shows(claims, phase)'
  BY <1>11 DEF Shows, Members, Ids, Shown
<1>14. Tells(claims, phase, value)'
  BY <1>12 DEF Tells, Knows, Members
<1>15. Sorted(claims, phase)'
  BY <1>10 DEF Sorted, Members
<1> QED BY <1>5, <1>7, <1>8, <1>13, <1>14, <1>15

-----------------------------------------------------------------------------
(* Steps that publish nothing, and what they leave of stores.              *)

LEMMA KeptFacts ==
    ASSUME IInv,
           \A t \in Tokens :
               \/ snapshot'[t] = snapshot[t]
               \/ /\ claims'[t] = {} /\ snapshot'[t] = {}
                  /\ \A v \in Viewers : ViewOf[v] = t => subscribed'[v] = 0,
           \A t \in Tokens : \A c \in Members(claims'[t]) : phase'[c] = "published" =>
               c \in Members(claims[t]) /\ phase[c] = "published" /\ value'[c] = value[c],
           \A t \in Tokens \ invalidated' :
               \/ claims'[t] = {} /\ snapshot'[t] = {}
               \/ /\ t \notin invalidated /\ Ids(claims'[t], phase') = Ids(claims[t], phase)
                  /\ \A c \in Members(claims'[t]) : phase'[c] # "pending"
                  /\ snapshot'[t] = snapshot[t],
           \A v \in Viewers \ pending' : subscribed'[v] # 0 =>
               \/ v \notin pending /\ subscribed[v] # 0 /\ seen'[v] = seen[v]
               \/ seen'[v] = Reading(ViewOf[v])
    PROVE  Shows(claims, phase)' /\ Tells(claims, phase, value)'
<1>1. /\ TypeOK /\ Sorted(claims, phase) /\ Shows(claims, phase) /\ Tells(claims, phase, value)
  BY DEF IInv
<1>2. \A t \in Tokens : claims'[t] = {} => /\ Members(claims'[t]) = {}
                                           /\ Ids(claims'[t], phase') = {}
  BY DEF Members, Ids, Shown
<1>3. Shows(claims, phase)'
  <2> SUFFICES ASSUME NEW t \in Tokens
               PROVE  /\ \A c \in Members(claims'[t]) :
                           phase'[c] = "published" => KeyOf[c] \in Members(snapshot'[t])
                      /\ t \notin invalidated' =>
                           /\ snapshot'[t] = Ids(claims'[t], phase')
                           /\ \A c \in Members(claims'[t]) : phase'[c] # "pending"
    BY DEF Shows, Members, Ids, Shown
  <2>1. \A c \in Members(claims'[t]) : phase'[c] = "published" => KeyOf[c] \in Members(snapshot'[t])
    BY <1>1, <1>2 DEF Shows
  <2>2. ASSUME t \notin invalidated'
        PROVE  /\ snapshot'[t] = Ids(claims'[t], phase')
               /\ \A c \in Members(claims'[t]) : phase'[c] # "pending"
    BY <1>1, <1>2, <2>2 DEF Shows
  <2> QED BY <2>1, <2>2
<1>4. ASSUME NEW v \in Viewers, v \notin pending', subscribed'[v] # 0
      PROVE  /\ seen'[v].keys = snapshot'[ViewOf[v]]
             /\ DOMAIN seen'[v].values = Members(snapshot'[ViewOf[v]])
             /\ \A c \in Members(claims'[ViewOf[v]]) :
                  phase'[c] = "published" => seen'[v].values[KeyOf[c]] = value'[c]
  <2> DEFINE t == ViewOf[v]
  <2>1. t \in Tokens
    BY Constants
  <2>2. /\ seen'[v].keys = snapshot[t] /\ DOMAIN seen'[v].values = Members(snapshot[t])
        /\ \A c \in Members(claims[t]) :
             phase[c] = "published" => seen'[v].values[KeyOf[c]] = value[c]
    <3>1. CASE v \notin pending /\ subscribed[v] # 0 /\ seen'[v] = seen[v]
      BY <1>1, <3>1 DEF Tells, Knows
    <3>2. CASE seen'[v] = Reading(t)
      BY <1>1, <2>1, <3>2, ReadingFacts
    <3> QED BY <1>4, <3>1, <3>2
  <2>3. snapshot'[t] = snapshot[t]
    BY <1>4, <2>1
  <2> QED BY <2>1, <2>2, <2>3
<1>5. Tells(claims, phase, value)'
  BY <1>4 DEF Tells, Knows, Members
<1> QED BY <1>3, <1>5

LEMMA StoresStay ==
    ASSUME IInv, live' \in SUBSET Tokens, invalidated' \subseteq live',
           \A s \in live : made'[s] = made[s],
           \A s \in Tokens : s \in live' <=>
               \/ s \in pinned' \/ claims'[s] # {}
               \/ \E v \in Viewers : ViewOf[v] = s /\ (view'[v] # 0 \/ subscribed'[v] # 0),
           \A c \in Claims : c \in Members(claims'[TokenOf[c]]) =>
               \/ c \in Members(claims[TokenOf[c]]) /\ home'[c] = home[c]
               \/ home'[c] = made'[TokenOf[c]],
           \A v \in Viewers : /\ view'[v] \in {0, view[v], made'[ViewOf[v]]}
                              /\ subscribed'[v] \in {0, subscribed[v], made'[ViewOf[v]]}
    PROVE  StoresAreExact'
<1>1. StoresAreExact
  BY DEF IInv
<1>2. ASSUME NEW c \in Claims, c \in Members(claims[TokenOf[c]])
      PROVE  home[c] = made[TokenOf[c]] /\ made'[TokenOf[c]] = made[TokenOf[c]]
  <2>1. claims[TokenOf[c]] # {} /\ TokenOf[c] \in Tokens
    BY <1>2, Constants DEF Members
  <2> QED BY <1>1, <1>2, <2>1 DEF StoresAreExact
<1>3. ASSUME NEW v \in Viewers
      PROVE  /\ view[v] # 0 => view[v] = made[ViewOf[v]] /\ made'[ViewOf[v]] = made[ViewOf[v]]
             /\ subscribed[v] # 0 => subscribed[v] = made[ViewOf[v]] /\ made'[ViewOf[v]] = made[ViewOf[v]]
  BY <1>1, Constants DEF StoresAreExact
<1>4. \A c \in Claims : c \in Members(claims'[TokenOf[c]]) => home'[c] = made'[TokenOf[c]]
  BY <1>2
<1>5. \A v \in Viewers : {view'[v], subscribed'[v]} \subseteq {0, made'[ViewOf[v]]}
  BY <1>3
<1> QED BY <1>4, <1>5 DEF StoresAreExact, Members

\* get(): the store, with a number, is live from now on.
LEMMA GetFacts ==
    ASSUME IInv, NEW t \in Tokens, Get(t)
    PROVE  /\ made' \in [Tokens -> 0..MaxStores] /\ live' \in SUBSET Tokens
           /\ live' = live \union {t} /\ made'[t] = Store(t) /\ Store(t) # 0
           /\ Store(t) \in 0..MaxStores
           /\ \A s \in live : made'[s] = made[s]
           /\ Numbered'
<1>1. made \in [Tokens -> 0..MaxStores] /\ live \in SUBSET Tokens /\ \A s \in live : made[s] # 0
  BY DEF IInv, TypeOK, Numbered
<1>2. made[t] \in Nat /\ made[t] <= MaxStores /\ MaxStores \in Nat
  BY <1>1, Constants
<1>3. made'[t] = Store(t) /\ Store(t) # 0 /\ Store(t) \in 0..MaxStores
  BY <1>1, <1>2 DEF Get, Store
<1>4. \A s \in Tokens \ {t} : made'[s] = made[s]
  BY <1>1 DEF Get
<1>5. live' = live \union {t} /\ \A s \in live : made'[s] = made[s]
  BY <1>1, <1>3, <1>4 DEF Get, Store
<1>6. made' \in [Tokens -> 0..MaxStores]
  BY <1>1, <1>3 DEF Get, Store
<1>7. Numbered'
  BY <1>1, <1>3, <1>5 DEF Numbered
<1> QED BY <1>1, <1>3, <1>5, <1>6, <1>7

\* The last reference takes the store along.
LEMMA ReleaseFacts ==
    ASSUME IInv, NEW t \in Tokens, ReleaseIfUnused(t),
           t \in live,
           \A s \in Tokens \ {t} : claims'[s] = claims[s],
           \A v \in Viewers : ViewOf[v] # t => view'[v] = view[v] /\ subscribed'[v] = subscribed[v]
    PROVE  /\ live' \in SUBSET Tokens /\ live' \subseteq live /\ live \subseteq live' \union {t}
           /\ made' = made /\ pinned' = pinned /\ Numbered'
           /\ t \notin live' => /\ claims'[t] = {}
                                /\ \A v \in Viewers : ViewOf[v] = t => subscribed'[v] = 0
           /\ \A s \in Tokens : s \in live' <=>
               \/ s \in pinned' \/ claims'[s] # {}
               \/ \E v \in Viewers : ViewOf[v] = s /\ (view'[v] # 0 \/ subscribed'[v] # 0)
<1>1. live \in SUBSET Tokens
  BY DEF IInv, TypeOK
<1>2. \A s \in Tokens \ {t} : s \in live' <=> s \in live
  BY DEF ReleaseIfUnused
<1>3. t \in live' <=> Used(t)
  BY DEF ReleaseIfUnused
<1>4. made' = made /\ pinned' = pinned /\ live' \subseteq live /\ live \subseteq live' \union {t}
  BY DEF ReleaseIfUnused
<1>5. Numbered'
  BY <1>4 DEF IInv, Numbered
<1>6. \A s \in Tokens \ {t} : s \in live' <=>
               \/ s \in pinned' \/ claims'[s] # {}
               \/ \E v \in Viewers : ViewOf[v] = s /\ (view'[v] # 0 \/ subscribed'[v] # 0)
  BY <1>2, <1>4 DEF IInv, StoresAreExact
<1> QED BY <1>1, <1>3, <1>4, <1>5, <1>6 DEF Used

LEMMA InsertSorted ==
    ASSUME NEW cs \in [Tokens -> SUBSET (Claims \X Claims)], NEW ph \in [Claims -> Phases],
           Sorted(cs, ph), NEW c \in Claims, NEW t \in Tokens, TokenOf[c] = t,
           \A d \in Members(cs[t]) : KeyOf[d] = KeyOf[c] => d = c,
           NEW p \in {"staged", "pending", "published"}
    PROVE  /\ [cs EXCEPT ![t] = Inserted(cs[t], c)] \in [Tokens -> SUBSET (Claims \X Claims)]
           /\ [ph EXCEPT ![c] = p] \in [Claims -> Phases]
           /\ Sorted([cs EXCEPT ![t] = Inserted(cs[t], c)], [ph EXCEPT ![c] = p])
<1> DEFINE m == Inserted(cs[t], c)
           ds == [cs EXCEPT ![t] = m]
           qh == [ph EXCEPT ![c] = p]
<1>1. Reflexive(cs[t])
  BY DEF Sorted, Reflexive
<1>2. /\ m \in SUBSET (Claims \X Claims) /\ Reflexive(m)
      /\ Members(m) = Members(cs[t]) \union {c}
  BY <1>1, InsertedFacts
<1> HIDE DEF m
<1>3. /\ ds \in [Tokens -> SUBSET (Claims \X Claims)] /\ ds[t] = m
      /\ \A s \in Tokens \ {t} : ds[s] = cs[s]
  BY <1>2
<1>4. /\ qh \in [Claims -> Phases] /\ qh[c] = p /\ \A d \in Claims \ {c} : qh[d] = ph[d]
  BY DEF Phases
<1>5. \A s \in Tokens : Members(cs[s]) \subseteq Claims
  BY DEF Members
<1> HIDE DEF ds, qh
<1>6. \A s \in Tokens : \A q \in ds[s] : <<q[1], q[1]>> \in ds[s] /\ <<q[2], q[2]>> \in ds[s]
  BY <1>2, <1>3 DEF Sorted, Reflexive
<1>7. ASSUME NEW s \in Tokens, NEW d \in Members(ds[s])
      PROVE  /\ TokenOf[d] = s /\ qh[d] \in {"staged", "pending", "published"}
             /\ \A e \in Members(ds[s]) : KeyOf[e] = KeyOf[d] => e = d
  <2>1. CASE s = t
    BY <1>2, <1>3, <1>4, <1>5, <2>1 DEF Sorted
  <2>2. CASE s # t
    BY <1>3, <1>4, <1>5, <2>2 DEF Sorted
  <2> QED BY <2>1, <2>2
<1>8. ASSUME NEW d \in Claims, qh[d] \in {"staged", "pending", "published"}
      PROVE  d \in Members(ds[TokenOf[d]])
  <2>1. TokenOf[d] \in Tokens
    BY Constants
  <2> QED BY <1>2, <1>3, <1>4, <1>8, <2>1 DEF Sorted
<1>9. Sorted(ds, qh)
  BY <1>6, <1>7, <1>8 DEF Sorted
<1> QED BY <1>3, <1>4, <1>9 DEF ds, qh, m

LEMMA DeleteSorted ==
    ASSUME NEW cs \in [Tokens -> SUBSET (Claims \X Claims)], NEW ph \in [Claims -> Phases],
           Sorted(cs, ph), NEW c \in Claims, NEW t \in Tokens, TokenOf[c] = t
    PROVE  /\ [cs EXCEPT ![t] = Deleted(cs[t], c)] \in [Tokens -> SUBSET (Claims \X Claims)]
           /\ [ph EXCEPT ![c] = "disposed"] \in [Claims -> Phases]
           /\ Sorted([cs EXCEPT ![t] = Deleted(cs[t], c)], [ph EXCEPT ![c] = "disposed"])
<1> DEFINE m == Deleted(cs[t], c)
           ds == [cs EXCEPT ![t] = m]
           qh == [ph EXCEPT ![c] = "disposed"]
<1>1. Reflexive(cs[t])
  BY DEF Sorted, Reflexive
<1>2. /\ m \in SUBSET (Claims \X Claims) /\ Reflexive(m) /\ Members(m) = Members(cs[t]) \ {c}
  BY <1>1, DeletedFacts
<1> HIDE DEF m
<1>3. /\ ds \in [Tokens -> SUBSET (Claims \X Claims)] /\ ds[t] = m
      /\ \A s \in Tokens \ {t} : ds[s] = cs[s]
  BY <1>2
<1>4. /\ qh \in [Claims -> Phases] /\ qh[c] = "disposed" /\ \A d \in Claims \ {c} : qh[d] = ph[d]
  BY DEF Phases
<1>5. \A s \in Tokens : Members(cs[s]) \subseteq Claims
  BY DEF Members
<1> HIDE DEF ds, qh
<1>6. \A s \in Tokens : \A q \in ds[s] : <<q[1], q[1]>> \in ds[s] /\ <<q[2], q[2]>> \in ds[s]
  BY <1>2, <1>3 DEF Sorted, Reflexive
<1>7. ASSUME NEW s \in Tokens, NEW d \in Members(ds[s])
      PROVE  /\ TokenOf[d] = s /\ qh[d] \in {"staged", "pending", "published"}
             /\ \A e \in Members(ds[s]) : KeyOf[e] = KeyOf[d] => e = d
  <2>1. d \in Members(cs[s]) /\ d # c /\ Members(ds[s]) \subseteq Members(cs[s])
    BY <1>2, <1>3 DEF Sorted
  <2> QED BY <1>4, <1>5, <2>1 DEF Sorted
<1>8. ASSUME NEW d \in Claims, qh[d] \in {"staged", "pending", "published"}
      PROVE  d \in Members(ds[TokenOf[d]])
  <2>1. TokenOf[d] \in Tokens /\ d # c
    BY <1>4, <1>8, Constants
  <2> QED BY <1>2, <1>3, <1>4, <1>8, <2>1 DEF Sorted
<1>9. Sorted(ds, qh)
  BY <1>6, <1>7, <1>8 DEF Sorted
<1> QED BY <1>3, <1>4, <1>9 DEF ds, qh, m

\* The ids of a store whose claims keep their phases stay.
LEMMA IdsElsewhere ==
    ASSUME TypeOK, Sorted(claims, phase), NEW s \in Tokens, NEW ph,
           \A d \in Claims : TokenOf[d] = s => ph[d] = phase[d]
    PROVE  Ids(claims[s], ph) = Ids(claims[s], phase)
<1>1. claims[s] \in SUBSET (Claims \X Claims)
  BY DEF TypeOK
<1>2. \A d \in Members(claims[s]) : ph[d] = phase[d]
  BY <1>1 DEF Sorted, Members
<1>3. \A p \in claims[s] : p[1] \in Members(claims[s]) /\ p[2] \in Members(claims[s])
  <2>1. \A p \in claims[s] : <<p[2], p[2]>> \in claims[s]
    BY DEF Sorted
  <2>2. \A p \in claims[s] : <<p[2], p[2]>>[1] \in Members(claims[s])
    BY <2>1 DEF Members
  <2> QED BY <2>2 DEF Members
<1>4. \A p : p \in Shown(claims[s], ph) <=> p \in Shown(claims[s], phase)
  BY <1>2, <1>3 DEF Shown
<1> QED BY <1>1, <1>4, IdsAgree

\* Outside transitions the claims of one store change and it publishes.
LEMMA PublishOne ==
    ASSUME IInv, ~batch, NEW t \in Tokens, NEW ph \in [Claims -> Phases],
           claims' \in [Tokens -> SUBSET (Claims \X Claims)],
           \A s \in Tokens \ {t} : claims'[s] = claims[s],
           Sorted(claims', ph), PublishSnapshots({t}, claims', ph),
           \A d \in Claims : ph[d] = "published" =>
               d \in Members(claims[TokenOf[d]]) /\ phase[d] = "published" /\ value'[d] = value[d],
           \A d \in Claims : TokenOf[d] # t => ph[d] = phase[d],
           seen' = seen, subscribed' = subscribed
    PROVE  /\ snapshot' \in [Tokens -> SUBSET (Keys \X Keys)] /\ pending' \in SUBSET Viewers
           /\ phase' \in [Claims -> Phases]
           /\ Sorted(claims, phase)' /\ Shows(claims, phase)' /\ Tells(claims, phase, value)'
<1>1. /\ TypeOK /\ Sorted(claims, phase) /\ Shows(claims, phase)
      /\ Tells(claims, phase, value) /\ invalidated = {}
  BY DEF IInv, Batched
<1>2. \A s \in Tokens : \A d \in Members(claims'[s]) : d \in Claims /\ TokenOf[d] = s
  BY DEF Sorted, Members
<1>3. ASSUME NEW s \in Tokens, NEW d \in Members(claims'[s])
      PROVE  /\ ph[d] = "pending" => s \in {t}
             /\ ph[d] = "published" => KeyOf[d] \in Members(snapshot[s])
  <2>1. d \in Claims /\ TokenOf[d] = s
    BY <1>2
  <2>2. ph[d] = "pending" => s = t
    BY <1>1, <2>1 DEF Shows
  <2>3. ph[d] = "published" => d \in Members(claims[s]) /\ phase[d] = "published"
    BY <2>1
  <2> QED BY <1>1, <2>2, <2>3 DEF Shows
<1>4. \A s \in Tokens \ {t} : snapshot[s] = Ids(claims'[s], ph)
  BY <1>1, IdsElsewhere DEF Shows
<1>5. Tells(claims', ph, value')
  <2> SUFFICES ASSUME NEW v \in Viewers \ pending, subscribed[v] # 0
               PROVE  Knows(v, claims', ph, value')
    BY DEF Tells
  <2>1. ViewOf[v] \in Tokens /\ Knows(v, claims, phase, value)
    BY <1>1, Constants DEF Tells
  <2>2. \A d \in Members(claims'[ViewOf[v]]) : ph[d] = "published" =>
           d \in Members(claims[ViewOf[v]]) /\ phase[d] = "published" /\ value'[d] = value[d]
    BY <1>2, <2>1
  <2> QED BY <2>1, <2>2 DEF Knows
<1>6. {t} \in SUBSET Tokens
  OBVIOUS
<1> QED BY <1>1, <1>3, <1>4, <1>5, <1>6, PublishFacts

\* #invalidate: at once, or by the transition.
LEMMA InvalidateFacts ==
    ASSUME IInv, NEW t \in Tokens, NEW m \in SUBSET (Claims \X Claims), NEW ph \in [Claims -> Phases],
           Sorted([claims EXCEPT ![t] = m], ph), Invalidate(t, m, ph),
           \A d \in Claims : ph[d] = "published" =>
               d \in Members(claims[TokenOf[d]]) /\ phase[d] = "published" /\ value'[d] = value[d],
           \A d \in Claims : TokenOf[d] # t => ph[d] = phase[d],
           UNCHANGED <<seen, subscribed, batch>>
    PROVE  /\ claims' = [claims EXCEPT ![t] = m] /\ claims' \in [Tokens -> SUBSET (Claims \X Claims)]
           /\ snapshot' \in [Tokens -> SUBSET (Keys \X Keys)] /\ pending' \in SUBSET Viewers
           /\ phase' \in [Claims -> Phases] /\ invalidated' \in SUBSET Tokens
           /\ invalidated' \subseteq invalidated \union {t}
           /\ Sorted(claims, phase)' /\ Batched' /\ Shows(claims, phase)'
           /\ Tells(claims, phase, value)'
<1> DEFINE cs == [claims EXCEPT ![t] = m]
<1>1. /\ TypeOK /\ Sorted(claims, phase) /\ Batched /\ Shows(claims, phase)
      /\ Tells(claims, phase, value)
  BY DEF IInv
<1>2. /\ claims' = cs /\ cs \in [Tokens -> SUBSET (Claims \X Claims)] /\ cs[t] = m
      /\ \A s \in Tokens \ {t} : cs[s] = claims[s]
  BY <1>1 DEF Invalidate, TypeOK
<1>3. \A s \in Tokens : Members(cs[s]) \subseteq Claims /\ Members(claims[s]) \subseteq Claims
  BY <1>1, <1>2 DEF Members, TypeOK
<1> HIDE DEF cs
<1>4. Sorted(cs, ph)
  BY DEF cs
<1>5. \A s \in Tokens : \A d \in Members(cs[s]) : d \in Claims /\ TokenOf[d] = s
  BY <1>3, <1>4 DEF Sorted
<1>6. CASE batch
  <2>1. phase' = ph /\ invalidated' = invalidated \union {t} /\ snapshot' = snapshot
        /\ pending' = pending
    BY <1>6 DEF Invalidate, Batching
  <2>2. \A s \in Tokens : \A d \in Members(claims'[s]) : phase'[d] = "published" =>
               d \in Members(claims[s]) /\ phase[d] = "published" /\ value'[d] = value[d]
    BY <1>2, <1>5, <2>1
  <2>3. \A s \in Tokens \ invalidated' :
               /\ s \notin invalidated /\ Ids(claims'[s], phase') = Ids(claims[s], phase)
               /\ \A d \in Members(claims'[s]) : phase'[d] # "pending"
    <3> SUFFICES ASSUME NEW s \in Tokens, s \notin invalidated, s # t
                 PROVE  /\ Ids(claims[s], ph) = Ids(claims[s], phase)
                        /\ \A d \in Members(claims[s]) : ph[d] # "pending"
      BY <1>2, <2>1
    <3>1. \A d \in Members(claims[s]) : ph[d] = phase[d] /\ phase[d] # "pending"
      BY <1>1, <1>3 DEF Sorted, Shows
    <3> QED BY <1>1, <3>1, IdsElsewhere
  <2>4. Shows(claims, phase)' /\ Tells(claims, phase, value)'
    BY <2>1, <2>2, <2>3, KeptFacts
  <2>5. Sorted(claims, phase)' /\ Batched'
    BY <1>1, <1>2, <1>4, <1>6, <2>1 DEF Batched, Sorted, Members
  <2> QED BY <1>1, <1>2, <2>1, <2>4, <2>5 DEF TypeOK, cs
<1>7. CASE ~batch
  <2>1. PublishSnapshots({t}, cs, ph) /\ invalidated' = invalidated /\ invalidated = {}
    BY <1>1, <1>7 DEF Invalidate, Batching, cs, Batched
  <2>2. /\ snapshot' \in [Tokens -> SUBSET (Keys \X Keys)] /\ pending' \in SUBSET Viewers
        /\ phase' \in [Claims -> Phases]
        /\ Sorted(claims, phase)' /\ Shows(claims, phase)' /\ Tells(claims, phase, value)'
    BY <1>2, <1>4, <1>7, <2>1, PublishOne
  <2>3. Batched'
    BY <1>7, <2>1 DEF Batched
  <2> QED BY <1>1, <1>2, <2>1, <2>2, <2>3 DEF TypeOK, cs
<1> QED BY <1>6, <1>7

-----------------------------------------------------------------------------
(* Claims.                                                                 *)

\* A claim of a free key is new to its store.
LEMMA Free ==
    ASSUME IInv, NEW c \in Claims, phase[c] = "none", ~Claimed(TokenOf[c], KeyOf[c])
    PROVE  /\ TokenOf[c] \in Tokens /\ c \notin Members(claims[TokenOf[c]])
           /\ \A d \in Members(claims[TokenOf[c]]) : KeyOf[d] = KeyOf[c] => d = c
<1>1. TokenOf[c] \in Tokens
  BY Constants
<1>2. c \notin Members(claims[TokenOf[c]])
  BY <1>1 DEF IInv, Sorted
<1> QED BY <1>1, <1>2 DEF Claimed

\* Hidden claims do not count.
LEMMA IdsHidden ==
    ASSUME IInv, NEW c \in Claims, NEW t \in Tokens, c \notin Members(claims[t])
    PROVE  Ids(Inserted(claims[t], c), [phase EXCEPT ![c] = "staged"]) = Ids(claims[t], phase)
<1> DEFINE qh == [phase EXCEPT ![c] = "staged"]
<1>1. /\ claims[t] \in SUBSET (Claims \X Claims) /\ Reflexive(claims[t])
      /\ Members(claims[t]) \subseteq Claims
  BY DEF IInv, TypeOK, Sorted, Reflexive, Members
<1>2. qh[c] = "staged" /\ \A d \in Claims \ {c} : qh[d] = phase[d]
  BY DEF IInv, TypeOK
<1>3. \A p \in claims[t] : p[1] \in Members(claims[t]) /\ p[2] \in Members(claims[t])
  <2>1. \A p \in claims[t] : <<p[2], p[2]>>[1] \in Members(claims[t])
    BY <1>1 DEF Members, Reflexive
  <2> QED BY <2>1 DEF Members
<1>4. \A p : p \in Inserted(claims[t], c) <=>
             p \in claims[t] \/ \E d \in Members(claims[t]) \union {c} : p = <<d, c>>
  BY DEF Inserted
<1> HIDE DEF qh
<1>5. \A p \in claims[t] : qh[p[1]] = phase[p[1]] /\ qh[p[2]] = phase[p[2]]
  BY <1>1, <1>2, <1>3
<1>6. \A p : p \in Shown(Inserted(claims[t], c), qh) <=> p \in Shown(claims[t], phase)
  BY <1>2, <1>4, <1>5 DEF Shown
<1>7. Inserted(claims[t], c) \in SUBSET (Claims \X Claims)
  BY <1>1, InsertedFacts
<1>8. Ids(Inserted(claims[t], c), qh) = Ids(claims[t], phase)
  BY <1>1, <1>6, <1>7, IdsAgree
<1> QED BY <1>8 DEF qh

LEMMA IdsDropped ==
    ASSUME IInv, NEW c \in Claims, NEW t \in Tokens, phase[c] = "staged"
    PROVE  Ids(Deleted(claims[t], c), [phase EXCEPT ![c] = "disposed"]) = Ids(claims[t], phase)
<1> DEFINE qh == [phase EXCEPT ![c] = "disposed"]
<1>1. /\ claims[t] \in SUBSET (Claims \X Claims) /\ Reflexive(claims[t])
      /\ Members(claims[t]) \subseteq Claims
  BY DEF IInv, TypeOK, Sorted, Reflexive, Members
<1>2. \A d \in Claims \ {c} : qh[d] = phase[d]
  BY DEF IInv, TypeOK
<1>3. \A p \in claims[t] : p[1] \in Claims /\ p[2] \in Claims
  BY <1>1
<1> HIDE DEF qh
<1>4. \A p : p \in Shown(Deleted(claims[t], c), qh) <=> p \in Shown(claims[t], phase)
  BY <1>2, <1>3 DEF Shown, Deleted
<1>5. Deleted(claims[t], c) \in SUBSET (Claims \X Claims)
  BY <1>1, DeletedFacts
<1>6. Ids(Deleted(claims[t], c), qh) = Ids(claims[t], phase)
  BY <1>1, <1>4, <1>5, IdsAgree
<1> QED BY <1>6 DEF qh

LEMMA StageStep ==
    ASSUME IInv, NEW c \in Claims, Stage(c)
    PROVE  IInv'
<1> DEFINE t == TokenOf[c]
           m == Inserted(claims[t], c)
           ph == [phase EXCEPT ![c] = "staged"]
<1>1. t \in Tokens /\ c \notin Members(claims[t])
  BY Free DEF Stage
<1>2. /\ TypeOK /\ Sorted(claims, phase) /\ Shows(claims, phase) /\ Batched /\ StoresAreExact
      /\ claims \in [Tokens -> SUBSET (Claims \X Claims)] /\ phase \in [Claims -> Phases]
  BY DEF IInv, TypeOK, Phases
<1>3. claims' = [claims EXCEPT ![t] = m] /\ phase' = ph /\ Get(t)
  BY DEF Stage
<1>4. /\ claims' \in [Tokens -> SUBSET (Claims \X Claims)] /\ phase' \in [Claims -> Phases]
      /\ Sorted(claims', phase')
  <2>1. \A d \in Members(claims[t]) : KeyOf[d] = KeyOf[c] => d = c
    BY Free DEF Stage
  <2> QED BY <1>1, <1>2, <1>3, <2>1, InsertSorted
<1>5. Members(m) = Members(claims[t]) \union {c} /\ Members(claims[t]) \subseteq Claims
  BY <1>1, <1>2, InsertedFacts DEF Sorted, Reflexive
<1>6. Ids(m, ph) = Ids(claims[t], phase)
  BY <1>1, IdsHidden
<1>7. phase'[c] = "staged" /\ \A d \in Claims \ {c} : phase'[d] = phase[d]
  BY <1>2, <1>3
<1>8. claims'[t] = m /\ \A s \in Tokens \ {t} : claims'[s] = claims[s]
  BY <1>1, <1>2, <1>3
<1> HIDE DEF m, ph
<1>9. \A s \in Tokens : Ids(claims'[s], phase') = Ids(claims[s], phase)
  <2> SUFFICES ASSUME NEW s \in Tokens \ {t} PROVE Ids(claims[s], phase') = Ids(claims[s], phase)
    BY <1>3, <1>6, <1>8
  <2>1. \A d \in Claims : TokenOf[d] = s => phase'[d] = phase[d]
    BY <1>7
  <2> QED BY <1>2, <2>1, IdsElsewhere
<1>10. ASSUME NEW s \in Tokens, NEW d \in Members(claims'[s])
       PROVE  d = c \/ (d \in Members(claims[s]) /\ d \in Claims /\ phase'[d] = phase[d])
  <2>1. Members(claims[s]) \subseteq Claims
    BY <1>2 DEF Members
  <2>2. d = c \/ d \in Members(claims[s])
    BY <1>5, <1>8, <1>10
  <2> QED BY <1>7, <2>1, <2>2
<1>11. UNCHANGED <<pinned, value, view, subscribed, seen, snapshot, pending, batch, invalidated>>
  BY DEF Stage, viewVars
<1>12. Shows(claims, phase)' /\ Tells(claims, phase, value)'
  <2>1. \A s \in Tokens : \A d \in Members(claims'[s]) : phase'[d] = "published" =>
               d \in Members(claims[s]) /\ phase[d] = "published" /\ value'[d] = value[d]
    BY <1>7, <1>10, <1>11
  <2>2. \A s \in Tokens \ invalidated' :
          /\ s \notin invalidated /\ \A d \in Members(claims'[s]) : phase'[d] # "pending"
          /\ snapshot'[s] = snapshot[s]
    BY <1>2, <1>7, <1>10, <1>11 DEF Shows
  <2> QED BY <1>9, <1>11, <2>1, <2>2, KeptFacts
<1>13. /\ made' \in [Tokens -> 0..MaxStores] /\ live' \in SUBSET Tokens
       /\ live' = live \union {t} /\ made'[t] = Store(t) /\ Store(t) \in 0..MaxStores
       /\ \A s \in live : made'[s] = made[s]
       /\ Numbered'
  BY <1>1, <1>3, GetFacts
<1>14. home' = [home EXCEPT ![c] = Store(t)] /\ home \in [Claims -> 0..MaxStores]
  BY <1>2 DEF Stage, TypeOK
<1>15. StoresAreExact'
  <2>1. \A s \in Tokens : s \in live' <=>
               \/ s \in pinned' \/ claims'[s] # {}
               \/ \E v \in Viewers : ViewOf[v] = s /\ (view'[v] # 0 \/ subscribed'[v] # 0)
    <3>1. claims'[t] # {}
      BY <1>5, <1>8 DEF Members
    <3> QED BY <1>1, <1>2, <1>8, <1>11, <1>13, <3>1 DEF StoresAreExact
  <2>2. \A d \in Claims : d \in Members(claims'[TokenOf[d]]) =>
               \/ d \in Members(claims[TokenOf[d]]) /\ home'[d] = home[d]
               \/ home'[d] = made'[TokenOf[d]]
    BY <1>10, <1>13, <1>14, Constants
  <2>3. \A v \in Viewers : /\ view'[v] \in {0, view[v], made'[ViewOf[v]]}
                           /\ subscribed'[v] \in {0, subscribed[v], made'[ViewOf[v]]}
    BY <1>11
  <2>4. invalidated' \subseteq live'
    BY <1>2, <1>11, <1>13 DEF StoresAreExact
  <2> QED BY <1>13, <2>1, <2>2, <2>3, <2>4, StoresStay
<1>16. home' \in [Claims -> 0..MaxStores]
  BY <1>13, <1>14
<1>17. TypeOK'
  BY <1>2, <1>4, <1>11, <1>13, <1>16 DEF TypeOK, Phases
<1>18. Sorted(claims, phase)' /\ Batched'
  BY <1>2, <1>4, <1>11 DEF Sorted, Members, Batched
<1> QED BY <1>12, <1>13, <1>15, <1>17, <1>18 DEF IInv

\* An invalidated store stays as it is but for its claims.
LEMMA InvalidateStep ==
    ASSUME IInv, NEW c \in Claims, NEW m \in SUBSET (Claims \X Claims),
           phase[c] \in {"staged", "pending", "published"}, m # {},
           \A d \in Members(m) : d \in Members(claims[TokenOf[c]]),
           Sorted([claims EXCEPT ![TokenOf[c]] = m], [phase EXCEPT ![c] = "pending"]),
           Invalidate(TokenOf[c], m, [phase EXCEPT ![c] = "pending"]),
           value' \in [Claims -> 0..MaxValue], \A d \in Claims \ {c} : value'[d] = value[d],
           UNCHANGED <<storeVars, home, viewVars, batch>>
    PROVE  IInv'
<1> DEFINE t == TokenOf[c]
           ph == [phase EXCEPT ![c] = "pending"]
<1>1. t \in Tokens
  BY Constants
<1>2. /\ TypeOK /\ Sorted(claims, phase) /\ StoresAreExact
      /\ claims \in [Tokens -> SUBSET (Claims \X Claims)] /\ phase \in [Claims -> Phases]
  BY DEF IInv, TypeOK, Phases
<1>3. /\ ph \in [Claims -> Phases] /\ ph[c] = "pending"
      /\ \A d \in Claims \ {c} : ph[d] = phase[d]
  BY <1>2 DEF Phases
<1>4. UNCHANGED <<made, live, pinned, home, view, subscribed, seen, batch>>
  BY DEF storeVars, viewVars
<1>5. Sorted([claims EXCEPT ![t] = m], ph) /\ Invalidate(t, m, ph)
  OBVIOUS
<1> HIDE DEF ph
<1>6. \A d \in Claims : ph[d] = "published" =>
               d \in Members(claims[TokenOf[d]]) /\ phase[d] = "published" /\ value'[d] = value[d]
  BY <1>2, <1>3 DEF Sorted
<1>7. \A d \in Claims : TokenOf[d] # t => ph[d] = phase[d]
  BY <1>3
<1>8. /\ claims' = [claims EXCEPT ![t] = m] /\ claims' \in [Tokens -> SUBSET (Claims \X Claims)]
      /\ snapshot' \in [Tokens -> SUBSET (Keys \X Keys)] /\ pending' \in SUBSET Viewers
      /\ phase' \in [Claims -> Phases] /\ invalidated' \in SUBSET Tokens
      /\ invalidated' \subseteq invalidated \union {t}
      /\ Sorted(claims, phase)' /\ Batched' /\ Shows(claims, phase)'
      /\ Tells(claims, phase, value)'
  BY <1>1, <1>3, <1>4, <1>5, <1>6, <1>7, InvalidateFacts
<1>9. claims[t] # {} /\ t \in live
  <2>1. c \in Members(claims[t])
    BY <1>2 DEF Sorted
  <2>2. claims[t] # {}
    BY <2>1 DEF Members
  <2> QED BY <1>1, <1>2, <2>2 DEF StoresAreExact
<1>10. claims'[t] = m /\ \A s \in Tokens \ {t} : claims'[s] = claims[s]
  BY <1>1, <1>2, <1>8
<1>11. StoresAreExact'
  <2>1. \A s \in Tokens : s \in live' <=>
               \/ s \in pinned' \/ claims'[s] # {}
               \/ \E v \in Viewers : ViewOf[v] = s /\ (view'[v] # 0 \/ subscribed'[v] # 0)
    BY <1>2, <1>4, <1>9, <1>10 DEF StoresAreExact
  <2>2. \A d \in Claims : d \in Members(claims'[TokenOf[d]]) =>
               d \in Members(claims[TokenOf[d]]) /\ home'[d] = home[d]
    BY <1>4, <1>10, Constants
  <2>3. live' \in SUBSET Tokens /\ invalidated' \subseteq live' /\ made' = made
    BY <1>2, <1>4, <1>8, <1>9 DEF TypeOK, StoresAreExact
  <2>4. \A v \in Viewers : view'[v] = view[v] /\ subscribed'[v] = subscribed[v]
    BY <1>4
  <2> QED BY <2>1, <2>2, <2>3, <2>4, StoresStay
<1>12. Numbered'
  BY <1>4 DEF IInv, Numbered
<1>13. TypeOK'
  BY <1>2, <1>4, <1>8 DEF TypeOK, Phases
<1> QED BY <1>8, <1>11, <1>12, <1>13 DEF IInv

\* A claim changes from one phase to another of its life.
LEMMA SameSorted ==
    ASSUME IInv, NEW c \in Claims, phase[c] \in {"staged", "pending", "published"}
    PROVE  /\ c \in Members(claims[TokenOf[c]])
           /\ Sorted([claims EXCEPT ![TokenOf[c]] = claims[TokenOf[c]]],
                     [phase EXCEPT ![c] = "pending"])
<1> DEFINE qh == [phase EXCEPT ![c] = "pending"]
<1>1. claims \in [Tokens -> SUBSET (Claims \X Claims)] /\ Sorted(claims, phase)
  BY DEF IInv, TypeOK
<1>2. [claims EXCEPT ![TokenOf[c]] = claims[TokenOf[c]]] = claims
  BY <1>1
<1>3. qh[c] = "pending" /\ \A d \in Claims \ {c} : qh[d] = phase[d]
  BY DEF IInv, TypeOK
<1>4. \A t \in Tokens : Members(claims[t]) \subseteq Claims
  BY <1>1 DEF Members
<1> HIDE DEF qh
<1>5. \A d \in Claims : qh[d] \in {"staged", "pending", "published"} <=>
                        phase[d] \in {"staged", "pending", "published"}
  BY <1>3
<1>6. Sorted(claims, qh)
  BY <1>1, <1>4, <1>5 DEF Sorted
<1>7. c \in Members(claims[TokenOf[c]])
  BY <1>1 DEF Sorted
<1> QED BY <1>2, <1>6, <1>7 DEF qh

LEMMA PublishStep ==
    ASSUME IInv, NEW c \in Claims, Publish(c)
    PROVE  IInv'
<1> DEFINE t == TokenOf[c]
           d == Deleted(claims[t], c)
           m == Inserted(d, c)
           cs == [claims EXCEPT ![t] = d]
           ph == [phase EXCEPT ![c] = "disposed"]
<1>1. /\ t \in Tokens /\ Sorted(claims, phase) /\ phase[c] = "staged"
      /\ claims \in [Tokens -> SUBSET (Claims \X Claims)] /\ phase \in [Claims -> Phases]
  BY Constants DEF IInv, TypeOK, Publish, Phases
<1>2. /\ cs \in [Tokens -> SUBSET (Claims \X Claims)] /\ ph \in [Claims -> Phases]
      /\ Sorted(cs, ph)
  BY <1>1, DeleteSorted
<1>3. c \in Members(claims[t])
  BY <1>1 DEF Sorted
<1>4. /\ d \in SUBSET (Claims \X Claims) /\ Reflexive(d) /\ Members(d) = Members(claims[t]) \ {c}
  BY <1>1, DeletedFacts DEF Sorted, Reflexive
<1> HIDE DEF d
<1>5. m \in SUBSET (Claims \X Claims) /\ Members(m) = Members(d) \union {c}
  BY <1>4, InsertedFacts
<1>6. m # {} /\ \A e \in Members(m) : e \in Members(claims[t])
  BY <1>3, <1>4, <1>5 DEF Members
<1>7. cs[t] = d
  BY <1>1
<1> HIDE DEF cs, ph
<1>8. \A e \in Members(cs[t]) : KeyOf[e] = KeyOf[c] => e = c
  BY <1>1, <1>3, <1>4, <1>7 DEF Sorted
<1>9. Sorted([cs EXCEPT ![t] = Inserted(cs[t], c)], [ph EXCEPT ![c] = "pending"])
  BY <1>1, <1>2, <1>8, InsertSorted
<1> HIDE DEF m
<1>10. /\ [cs EXCEPT ![t] = m] = [claims EXCEPT ![t] = m]
       /\ [ph EXCEPT ![c] = "pending"] = [phase EXCEPT ![c] = "pending"]
  BY <1>1 DEF cs, ph
<1>11. Sorted([claims EXCEPT ![t] = m], [phase EXCEPT ![c] = "pending"])
  BY <1>7, <1>9, <1>10 DEF m
<1>12. Invalidate(t, m, [phase EXCEPT ![c] = "pending"])
  BY DEF Publish, m, d
<1>13. UNCHANGED <<storeVars, home, viewVars, batch>> /\ value' = value
  BY DEF Publish
<1>14. value' \in [Claims -> 0..MaxValue]
  BY <1>13 DEF IInv, TypeOK
<1> QED BY <1>1, <1>5, <1>6, <1>11, <1>12, <1>13, <1>14, InvalidateStep

LEMMA UpdateStep ==
    ASSUME IInv, NEW c \in Claims, Update(c)
    PROVE  IInv'
<1> DEFINE t == TokenOf[c]
<1>1. /\ TypeOK /\ Sorted(claims, phase) /\ t \in Tokens /\ c \in Members(claims[t])
      /\ claims[t] \in SUBSET (Claims \X Claims)
  BY SameSorted, Constants DEF Update, Active, IInv, TypeOK
<1>2. /\ value' \in [Claims -> 0..MaxValue] /\ \A d \in Claims \ {c} : value'[d] = value[d]
  <2>1. value[c] + 1 \in 0..MaxValue /\ value' = [value EXCEPT ![c] = value[c] + 1]
    <3>1. value[c] \in Nat /\ MaxValue \in Nat /\ value[c] < MaxValue
      BY <1>1, Constants DEF Update, TypeOK
    <3> QED BY <3>1 DEF Update
  <2> QED BY <1>1, <2>1 DEF TypeOK
<1>3. UNCHANGED <<storeVars, home, viewVars, batch>>
  BY DEF Update
<1>4. CASE phase[c] = "staged"
  <2>1. UNCHANGED <<made, live, pinned, claims, phase, home, view, subscribed, seen, snapshot,
                    pending, batch, invalidated>>
    BY <1>3, <1>4 DEF Update, ValueChanged, storeVars, viewVars
  <2>2. \A s \in Tokens : \A d \in Members(claims[s]) : phase[d] = "published" =>
               d \in Claims /\ d # c
    BY <1>1, <1>4 DEF Members, TypeOK
  <2>3. Shows(claims, phase)' /\ Tells(claims, phase, value)'
    <3>1. \A s \in Tokens : \A d \in Members(claims'[s]) : phase'[d] = "published" =>
               d \in Members(claims[s]) /\ phase[d] = "published" /\ value'[d] = value[d]
      BY <1>2, <2>1, <2>2
    <3>2. \A s \in Tokens \ invalidated' :
               /\ s \notin invalidated /\ Ids(claims'[s], phase') = Ids(claims[s], phase)
               /\ \A d \in Members(claims'[s]) : phase'[d] # "pending"
               /\ snapshot'[s] = snapshot[s]
      BY <2>1 DEF IInv, Shows
    <3>3. \A s \in Tokens : snapshot'[s] = snapshot[s]
      BY <2>1
    <3> QED BY <2>1, <3>1, <3>2, <3>3, KeptFacts
  <2>4. Sorted(claims, phase)' /\ Batched' /\ Numbered' /\ StoresAreExact'
    BY <2>1 DEF IInv, Sorted, Batched, Numbered, StoresAreExact, Members
  <2>5. TypeOK'
    BY <1>1, <1>2, <2>1 DEF TypeOK
  <2> QED BY <2>3, <2>4, <2>5 DEF IInv
<1>5. CASE phase[c] # "staged"
  <2>1. Invalidate(t, claims[t], [phase EXCEPT ![c] = "pending"])
    BY <1>5 DEF Update, ValueChanged
  <2>2. Sorted([claims EXCEPT ![t] = claims[t]], [phase EXCEPT ![c] = "pending"])
    BY SameSorted DEF Update, Active
  <2>3. claims[t] # {} /\ phase[c] \in {"staged", "pending", "published"}
    BY <1>1 DEF Members, Update, Active
  <2> QED BY <1>1, <1>2, <1>3, <2>1, <2>2, <2>3, InvalidateStep
<1> QED BY <1>4, <1>5

LEMMA AddStep ==
    ASSUME IInv, NEW c \in Claims, Add(c)
    PROVE  IInv'
<1> DEFINE t == TokenOf[c]
           m == Inserted(claims[t], c)
           ph == [phase EXCEPT ![c] = "pending"]
<1>1. t \in Tokens /\ c \notin Members(claims[t])
  BY Free DEF Add
<1>2. /\ TypeOK /\ Sorted(claims, phase) /\ StoresAreExact
      /\ claims \in [Tokens -> SUBSET (Claims \X Claims)] /\ phase \in [Claims -> Phases]
  BY DEF IInv, TypeOK, Phases
<1>3. Sorted([claims EXCEPT ![t] = m], ph) /\ ph \in [Claims -> Phases]
  <2>1. \A d \in Members(claims[t]) : KeyOf[d] = KeyOf[c] => d = c
    BY Free DEF Add
  <2> QED BY <1>1, <1>2, <2>1, InsertSorted
<1>4. /\ m \in SUBSET (Claims \X Claims) /\ Members(m) = Members(claims[t]) \union {c}
  BY <1>1, <1>2, InsertedFacts DEF Sorted, Reflexive
<1>5. Get(t) /\ Invalidate(t, m, ph) /\ home' = [home EXCEPT ![c] = Store(t)]
  BY DEF Add
<1>6. ph[c] = "pending" /\ \A d \in Claims \ {c} : ph[d] = phase[d]
  BY <1>2
<1>7. UNCHANGED <<pinned, value, view, subscribed, seen, batch>>
  BY DEF Add, viewVars
<1> HIDE DEF m, ph
<1>8. \A d \in Claims : ph[d] = "published" =>
               d \in Members(claims[TokenOf[d]]) /\ phase[d] = "published" /\ value'[d] = value[d]
  BY <1>2, <1>6, <1>7 DEF Sorted
<1>9. \A d \in Claims : TokenOf[d] # t => ph[d] = phase[d]
  BY <1>6
<1>10. /\ claims' = [claims EXCEPT ![t] = m] /\ claims' \in [Tokens -> SUBSET (Claims \X Claims)]
       /\ snapshot' \in [Tokens -> SUBSET (Keys \X Keys)] /\ pending' \in SUBSET Viewers
       /\ phase' \in [Claims -> Phases] /\ invalidated' \in SUBSET Tokens
       /\ invalidated' \subseteq invalidated \union {t}
       /\ Sorted(claims, phase)' /\ Batched' /\ Shows(claims, phase)'
       /\ Tells(claims, phase, value)'
  BY <1>1, <1>3, <1>4, <1>5, <1>7, <1>8, <1>9, InvalidateFacts
<1>11. /\ made' \in [Tokens -> 0..MaxStores] /\ live' \in SUBSET Tokens
       /\ live' = live \union {t} /\ made'[t] = Store(t) /\ Store(t) \in 0..MaxStores
       /\ \A s \in live : made'[s] = made[s]
       /\ Numbered'
  BY <1>1, <1>5, GetFacts
<1>12. claims'[t] = m /\ \A s \in Tokens \ {t} : claims'[s] = claims[s]
  BY <1>1, <1>2, <1>10
<1>13. home \in [Claims -> 0..MaxStores]
  BY <1>2 DEF TypeOK
<1>14. StoresAreExact'
  <2>1. \A s \in Tokens : s \in live' <=>
               \/ s \in pinned' \/ claims'[s] # {}
               \/ \E v \in Viewers : ViewOf[v] = s /\ (view'[v] # 0 \/ subscribed'[v] # 0)
    <3>1. claims'[t] # {}
      BY <1>4, <1>12 DEF Members
    <3> QED BY <1>1, <1>2, <1>7, <1>11, <1>12, <3>1 DEF StoresAreExact
  <2>2. \A d \in Claims : d \in Members(claims'[TokenOf[d]]) =>
               \/ d \in Members(claims[TokenOf[d]]) /\ home'[d] = home[d]
               \/ home'[d] = made'[TokenOf[d]]
    <3> SUFFICES ASSUME NEW d \in Claims, d # c, d \in Members(claims'[TokenOf[d]])
                 PROVE  d \in Members(claims[TokenOf[d]]) /\ home'[d] = home[d]
      BY <1>5, <1>11, <1>13
    <3>1. TokenOf[d] \in Tokens /\ home'[d] = home[d]
      BY <1>5, <1>13, Constants
    <3> QED BY <1>4, <1>12, <3>1
  <2>3. \A v \in Viewers : view'[v] = view[v] /\ subscribed'[v] = subscribed[v]
    BY <1>7
  <2>4. invalidated' \subseteq live'
    BY <1>2, <1>10, <1>11 DEF StoresAreExact
  <2> QED BY <1>11, <2>1, <2>2, <2>3, <2>4, StoresStay
<1>15. home' \in [Claims -> 0..MaxStores]
  BY <1>5, <1>11, <1>13
<1>16. TypeOK'
  BY <1>2, <1>7, <1>10, <1>11, <1>15 DEF TypeOK, Phases
<1> QED BY <1>10, <1>11, <1>14, <1>16 DEF IInv

LEMMA DisposeClaimStep ==
    ASSUME IInv, NEW c \in Claims, DisposeClaim(c)
    PROVE  IInv'
<1> DEFINE t == TokenOf[c]
           m == Deleted(claims[t], c)
           ph == [phase EXCEPT ![c] = "disposed"]
<1>1. /\ TypeOK /\ Sorted(claims, phase) /\ Shows(claims, phase) /\ Batched /\ StoresAreExact
      /\ claims \in [Tokens -> SUBSET (Claims \X Claims)] /\ phase \in [Claims -> Phases]
  BY DEF IInv, TypeOK, Phases
<1>2. t \in Tokens /\ phase[c] \in {"staged", "pending", "published"}
  BY Constants DEF DisposeClaim, Active
<1>3. /\ claims' = [claims EXCEPT ![t] = m] /\ ReleaseIfUnused(t)
  BY DEF DisposeClaim, ClaimRemoved
<1>4. /\ [claims EXCEPT ![t] = m] \in [Tokens -> SUBSET (Claims \X Claims)]
      /\ ph \in [Claims -> Phases] /\ Sorted([claims EXCEPT ![t] = m], ph)
  BY <1>1, <1>2, DeleteSorted
<1>5. Members(m) = Members(claims[t]) \ {c}
  BY <1>1, <1>2, DeletedFacts DEF Sorted, Reflexive
<1>6. UNCHANGED <<home, value, view, subscribed, seen, batch>>
  BY DEF DisposeClaim, viewVars
<1>7. c \in Members(claims[t]) /\ t \in live
  <2>1. c \in Members(claims[t])
    BY <1>1, <1>2 DEF Sorted
  <2>2. claims[t] # {}
    BY <2>1 DEF Members
  <2> QED BY <1>1, <1>2, <2>1, <2>2 DEF StoresAreExact
<1>8. ph[c] = "disposed" /\ \A d \in Claims \ {c} : ph[d] = phase[d]
  BY <1>1
<1>9. phase[c] = "staged" => Ids(m, ph) = Ids(claims[t], phase)
  BY <1>2, IdsDropped
<1>10. /\ (phase[c] = "staged" \/ batch) => /\ phase' = ph /\ snapshot' = Retained(t)
                                            /\ pending' = pending
       /\ ~(phase[c] = "staged" \/ batch) => PublishSnapshots({t}, claims', ph)
       /\ invalidated' = Discarded(t, IF batch /\ phase[c] # "staged"
                                      THEN invalidated \union {t} ELSE invalidated)
  BY <1>3 DEF DisposeClaim, ClaimRemoved, Batching
<1> HIDE DEF m, ph
<1>11. claims'[t] = m /\ \A s \in Tokens \ {t} : claims'[s] = claims[s]
  BY <1>1, <1>2, <1>3
<1>12. /\ live' \in SUBSET Tokens /\ live' \subseteq live /\ live \subseteq live' \union {t}
       /\ made' = made /\ pinned' = pinned /\ Numbered'
       /\ t \notin live' => /\ claims'[t] = {}
                            /\ \A v \in Viewers : ViewOf[v] = t => subscribed'[v] = 0
       /\ \A s \in Tokens : s \in live' <=>
           \/ s \in pinned' \/ claims'[s] # {}
           \/ \E v \in Viewers : ViewOf[v] = s /\ (view'[v] # 0 \/ subscribed'[v] # 0)
  BY <1>2, <1>3, <1>6, <1>7, <1>11, ReleaseFacts
<1>13. /\ invalidated' \subseteq invalidated \union {t} /\ invalidated' \in SUBSET Tokens
       /\ invalidated' \subseteq live' /\ \A s \in Tokens \ {t} : s \in invalidated => s \in invalidated'
  BY <1>1, <1>2, <1>10, <1>12 DEF Discarded, TypeOK, StoresAreExact
<1>14. \A s \in Tokens : \A d \in Members(claims'[s]) : d \in Members(claims[s])
  BY <1>5, <1>11
<1>15. \A s \in Tokens : \A d \in Members(claims'[s]) : d \in Claims /\ TokenOf[d] = s /\ d # c
  <2>1. \A s \in Tokens : \A d \in Members(claims[s]) : d \in Claims /\ TokenOf[d] = s
    BY <1>1 DEF Sorted, Members
  <2> QED BY <1>5, <1>11, <1>14, <2>1
<1>16. \A d \in Claims : TokenOf[d] # t => ph[d] = phase[d]
  BY <1>8
<1>17. StoresAreExact'
  <2>1. \A d \in Claims : d \in Members(claims'[TokenOf[d]]) =>
               d \in Members(claims[TokenOf[d]]) /\ home'[d] = home[d]
    BY <1>6, <1>14, Constants
  <2>2. \A v \in Viewers : view'[v] = view[v] /\ subscribed'[v] = subscribed[v]
    BY <1>6
  <2> QED BY <1>12, <1>13, <2>1, <2>2, StoresStay
<1>18. CASE phase[c] = "staged" \/ batch
  <2>1. phase' = ph /\ snapshot' = Retained(t) /\ pending' = pending
    BY <1>10, <1>18
  <2>2. /\ \A s \in Tokens \ {t} : snapshot'[s] = snapshot[s]
        /\ snapshot'[t] = IF t \in live' THEN snapshot[t] ELSE {}
        /\ snapshot' \in [Tokens -> SUBSET (Keys \X Keys)]
    BY <1>1, <1>2, <2>1 DEF Retained, TypeOK
  <2>3. Sorted(claims, phase)' /\ Batched'
    BY <1>1, <1>3, <1>4, <1>6, <1>10, <1>18, <2>1 DEF Sorted, Members, Batched, Discarded
  <2>4. Shows(claims, phase)' /\ Tells(claims, phase, value)'
    <3>1. \A s \in Tokens :
               \/ snapshot'[s] = snapshot[s]
               \/ /\ claims'[s] = {} /\ snapshot'[s] = {}
                  /\ \A v \in Viewers : ViewOf[v] = s => subscribed'[v] = 0
      BY <1>12, <2>2
    <3>2. \A s \in Tokens : \A d \in Members(claims'[s]) : phase'[d] = "published" =>
               d \in Members(claims[s]) /\ phase[d] = "published" /\ value'[d] = value[d]
      BY <1>6, <1>8, <1>14, <1>15, <2>1
    <3>3. ASSUME NEW s \in Tokens \ invalidated'
          PROVE  \/ claims'[s] = {} /\ snapshot'[s] = {}
                 \/ /\ s \notin invalidated /\ Ids(claims'[s], phase') = Ids(claims[s], phase)
                    /\ \A d \in Members(claims'[s]) : phase'[d] # "pending"
                    /\ snapshot'[s] = snapshot[s]
      <4>1. CASE s = t /\ t \notin live'
        BY <1>12, <2>2, <4>1
      <4>2. CASE s = t /\ t \in live'
        <5>1. phase[c] = "staged" /\ t \notin invalidated
          BY <1>10, <1>18, <4>2 DEF Discarded
        <5>2. Ids(claims'[t], phase') = Ids(claims[t], phase)
          BY <1>9, <1>11, <2>1, <5>1
        <5>3. \A d \in Members(claims'[t]) : phase'[d] # "pending"
          BY <1>1, <1>2, <1>8, <1>14, <1>15, <2>1, <5>1 DEF Shows
        <5> QED BY <2>2, <4>2, <5>1, <5>2, <5>3
      <4>3. CASE s # t
        <5>1. s \in Tokens /\ s \notin invalidated /\ claims'[s] = claims[s] /\ snapshot'[s] = snapshot[s]
          BY <1>11, <1>13, <2>2, <4>3
        <5>2. Ids(claims[s], ph) = Ids(claims[s], phase)
          BY <1>1, <1>16, <4>3, <5>1, IdsElsewhere
        <5>3. \A d \in Members(claims'[s]) : phase'[d] # "pending"
          BY <1>1, <1>8, <1>14, <1>15, <2>1, <5>1 DEF Shows
        <5> QED BY <2>1, <5>1, <5>2, <5>3
      <4> QED BY <4>1, <4>2, <4>3
    <3>4. \A v \in Viewers \ pending' : subscribed'[v] # 0 =>
               v \notin pending /\ subscribed[v] # 0 /\ seen'[v] = seen[v]
      BY <1>6, <2>1
    <3> QED BY <3>1, <3>2, <3>3, <3>4, KeptFacts
  <2>5. TypeOK'
    BY <1>1, <1>3, <1>4, <1>6, <1>12, <1>13, <2>1, <2>2 DEF TypeOK, Phases
  <2> QED BY <1>12, <1>17, <2>3, <2>4, <2>5 DEF IInv
<1>19. CASE phase[c] # "staged" /\ ~batch
  <2>1. PublishSnapshots({t}, claims', ph) /\ ~batch
    BY <1>10, <1>19
  <2>2. \A d \in Claims : ph[d] = "published" =>
               d \in Members(claims[TokenOf[d]]) /\ phase[d] = "published" /\ value'[d] = value[d]
    BY <1>1, <1>6, <1>8 DEF Sorted
  <2>3. /\ claims' \in [Tokens -> SUBSET (Claims \X Claims)] /\ Sorted(claims', ph)
        /\ ph \in [Claims -> Phases]
    BY <1>3, <1>4
  <2>4. seen' = seen /\ subscribed' = subscribed
    BY <1>6
  <2>5. /\ snapshot' \in [Tokens -> SUBSET (Keys \X Keys)] /\ pending' \in SUBSET Viewers
        /\ phase' \in [Claims -> Phases]
        /\ Sorted(claims, phase)' /\ Shows(claims, phase)' /\ Tells(claims, phase, value)'
    BY <1>2, <1>11, <1>16, <2>1, <2>2, <2>3, <2>4, PublishOne
  <2>6. Batched'
    BY <1>1, <1>6, <1>10, <1>19 DEF Batched, Discarded
  <2>7. TypeOK'
    BY <1>1, <1>6, <1>12, <1>13, <2>3, <2>5 DEF TypeOK, Phases
  <2> QED BY <1>12, <1>17, <2>5, <2>6, <2>7 DEF IInv
<1> QED BY <1>18, <1>19

-----------------------------------------------------------------------------
(* Views and subscriptions.                                                *)

\* Nothing is published or claimed, and all who are subscribed were so before,
\* or have just read.
LEMMA QuietFacts ==
    ASSUME IInv, UNCHANGED <<claims, phase, home, value, snapshot, batch, invalidated>>,
           pending' \in SUBSET pending,
           \A v \in Viewers \ pending' : subscribed'[v] # 0 =>
               \/ v \notin pending /\ subscribed[v] # 0 /\ seen'[v] = seen[v]
               \/ seen'[v] = Reading(ViewOf[v])
    PROVE  /\ Sorted(claims, phase)' /\ Shows(claims, phase)' /\ Tells(claims, phase, value)'
           /\ Batched'
<1>1. /\ claims' = claims /\ phase' = phase /\ value' = value /\ snapshot' = snapshot
      /\ batch' = batch /\ invalidated' = invalidated
  OBVIOUS
<1>2. \A s \in Tokens : snapshot'[s] = snapshot[s]
  BY <1>1
<1>3. \A s \in Tokens : \A d \in Members(claims'[s]) : phase'[d] = "published" =>
           d \in Members(claims[s]) /\ phase[d] = "published" /\ value'[d] = value[d]
  BY <1>1
<1>4. \A s \in Tokens \ invalidated' :
           /\ s \notin invalidated /\ Ids(claims'[s], phase') = Ids(claims[s], phase)
           /\ \A d \in Members(claims'[s]) : phase'[d] # "pending"
           /\ snapshot'[s] = snapshot[s]
  BY <1>1 DEF IInv, Shows
<1>5. Shows(claims, phase)' /\ Tells(claims, phase, value)'
  BY <1>2, <1>3, <1>4, KeptFacts
<1>6. Sorted(claims, phase)'
  BY <1>1 DEF IInv, Sorted, Members
<1>7. Batched'
  BY <1>1 DEF IInv, Batched
<1> QED BY <1>5, <1>6, <1>7

\* The store of an extension point is made and referred to.
LEMMA HostViewStep ==
    ASSUME IInv, NEW t \in Tokens, HostView(t)
    PROVE  IInv'
<1>1. /\ Get(t) /\ pinned' = pinned \union {t}
      /\ UNCHANGED <<claims, phase, home, value, view, subscribed, seen, snapshot, pending,
                     batch, invalidated>>
  BY DEF HostView, claimVars, viewVars
<1>2. /\ made' \in [Tokens -> 0..MaxStores] /\ live' \in SUBSET Tokens
      /\ live' = live \union {t} /\ \A s \in live : made'[s] = made[s]
      /\ Numbered'
  BY <1>1, GetFacts
<1>3. /\ Sorted(claims, phase)' /\ Shows(claims, phase)' /\ Tells(claims, phase, value)'
      /\ Batched'
  BY <1>1, QuietFacts
<1>4. StoresAreExact'
  <2>1. \A s \in Tokens : s \in live' <=>
               \/ s \in pinned' \/ claims'[s] # {}
               \/ \E v \in Viewers : ViewOf[v] = s /\ (view'[v] # 0 \/ subscribed'[v] # 0)
    BY <1>1, <1>2 DEF IInv, StoresAreExact
  <2>2. invalidated' \subseteq live'
    BY <1>1, <1>2 DEF IInv, StoresAreExact
  <2>3. \A v \in Viewers : view'[v] = view[v] /\ subscribed'[v] = subscribed[v]
    BY <1>1
  <2>4. \A d \in Claims : d \in Members(claims'[TokenOf[d]]) =>
               d \in Members(claims[TokenOf[d]]) /\ home'[d] = home[d]
    BY <1>1
  <2> QED BY <1>2, <2>1, <2>2, <2>3, <2>4, StoresStay
<1>5. TypeOK'
  BY <1>1, <1>2 DEF IInv, TypeOK
<1> QED BY <1>2, <1>3, <1>4, <1>5 DEF IInv

LEMMA OpenViewStep ==
    ASSUME IInv, NEW v \in Viewers, OpenView(v)
    PROVE  IInv'
<1> DEFINE t == ViewOf[v]
<1>1. /\ t \in Tokens /\ Get(t) /\ view' = [view EXCEPT ![v] = Store(t)]
      /\ UNCHANGED <<pinned, claims, phase, home, value, subscribed, seen, snapshot, pending,
                     batch, invalidated>>
  BY Constants DEF OpenView, claimVars
<1>2. /\ made' \in [Tokens -> 0..MaxStores] /\ live' \in SUBSET Tokens
      /\ live' = live \union {t} /\ made'[t] = Store(t) /\ Store(t) # 0
      /\ Store(t) \in 0..MaxStores
      /\ \A s \in live : made'[s] = made[s]
      /\ Numbered'
  BY <1>1, GetFacts
<1>3. /\ Sorted(claims, phase)' /\ Shows(claims, phase)' /\ Tells(claims, phase, value)'
      /\ Batched'
  BY <1>1, QuietFacts
<1>4. view \in [Viewers -> 0..MaxStores]
  BY DEF IInv, TypeOK
<1>5. view'[v] = made'[t] /\ view'[v] # 0 /\ \A w \in Viewers \ {v} : view'[w] = view[w]
  BY <1>1, <1>2, <1>4
<1>6. StoresAreExact'
  <2>1. \A s \in Tokens : s \in live' <=>
               \/ s \in pinned' \/ claims'[s] # {}
               \/ \E w \in Viewers : ViewOf[w] = s /\ (view'[w] # 0 \/ subscribed'[w] # 0)
    <3> SUFFICES ASSUME NEW s \in Tokens
                 PROVE  s \in live' <=>
               \/ s \in pinned' \/ claims'[s] # {}
               \/ \E w \in Viewers : ViewOf[w] = s /\ (view'[w] # 0 \/ subscribed'[w] # 0)
      OBVIOUS
    <3>1. CASE s = t
      BY <1>2, <1>5, <3>1
    <3>2. CASE s # t
      BY <1>1, <1>2, <1>5, <3>2 DEF IInv, StoresAreExact
    <3> QED BY <3>1, <3>2
  <2>2. invalidated' \subseteq live'
    BY <1>1, <1>2 DEF IInv, StoresAreExact
  <2>3. \A w \in Viewers : /\ view'[w] \in {0, view[w], made'[ViewOf[w]]}
                           /\ subscribed'[w] = subscribed[w]
    BY <1>1, <1>5
  <2>4. \A d \in Claims : d \in Members(claims'[TokenOf[d]]) =>
               d \in Members(claims[TokenOf[d]]) /\ home'[d] = home[d]
    BY <1>1
  <2> QED BY <1>2, <2>1, <2>2, <2>3, <2>4, StoresStay
<1>7. view' \in [Viewers -> 0..MaxStores]
  BY <1>1, <1>2, <1>4
<1>8. TypeOK'
  BY <1>1, <1>2, <1>7 DEF IInv, TypeOK
<1> QED BY <1>2, <1>3, <1>6, <1>8 DEF IInv

LEMMA SubscribeStep ==
    ASSUME IInv, NEW v \in Viewers, Subscribe(v)
    PROVE  IInv'
<1> DEFINE t == ViewOf[v]
<1>1. /\ t \in Tokens /\ view[v] # 0
      /\ subscribed' = [subscribed EXCEPT ![v] = view[v]]
      /\ seen' = [seen EXCEPT ![v] = Reading(t)]
      /\ UNCHANGED <<made, live, pinned, claims, phase, home, value, view, snapshot, pending,
                     batch, invalidated>>
  BY Constants DEF Subscribe, storeVars, claimVars
<1>2. Reading(t) \in [keys : SUBSET (Keys \X Keys), values : Values]
  BY <1>1, ReadingFacts DEF IInv
<1>3. /\ subscribed \in [Viewers -> 0..MaxStores] /\ view \in [Viewers -> 0..MaxStores]
      /\ seen \in [Viewers -> [keys : SUBSET (Keys \X Keys), values : Values]]
  BY DEF IInv, TypeOK
<1>4. /\ seen'[v] = Reading(t) /\ subscribed'[v] = view[v]
      /\ \A w \in Viewers \ {v} : seen'[w] = seen[w] /\ subscribed'[w] = subscribed[w]
  BY <1>1, <1>3
<1>5. /\ subscribed' \in [Viewers -> 0..MaxStores]
      /\ seen' \in [Viewers -> [keys : SUBSET (Keys \X Keys), values : Values]]
  BY <1>1, <1>2, <1>3
<1>6. /\ Sorted(claims, phase)' /\ Shows(claims, phase)' /\ Tells(claims, phase, value)'
      /\ Batched'
  <2>1. \A w \in Viewers \ pending' : subscribed'[w] # 0 =>
               \/ w \notin pending /\ subscribed[w] # 0 /\ seen'[w] = seen[w]
               \/ seen'[w] = Reading(ViewOf[w])
    BY <1>1, <1>4
  <2> QED BY <1>1, <2>1, QuietFacts
<1>7. StoresAreExact'
  <2>1. \A s \in Tokens : s \in live' <=>
               \/ s \in pinned' \/ claims'[s] # {}
               \/ \E w \in Viewers : ViewOf[w] = s /\ (view'[w] # 0 \/ subscribed'[w] # 0)
    BY <1>1, <1>4 DEF IInv, StoresAreExact
  <2>2. \A w \in Viewers : view'[w] = view[w] /\ subscribed'[w] \in {0, subscribed[w], made'[ViewOf[w]]}
    BY <1>1, <1>4 DEF IInv, StoresAreExact
  <2>3. \A d \in Claims : d \in Members(claims'[TokenOf[d]]) =>
               d \in Members(claims[TokenOf[d]]) /\ home'[d] = home[d]
    BY <1>1
  <2>4. live' \in SUBSET Tokens /\ invalidated' \subseteq live' /\ made' = made
    BY <1>1 DEF IInv, TypeOK, StoresAreExact
  <2> QED BY <2>1, <2>2, <2>3, <2>4, StoresStay
<1>8. TypeOK' /\ Numbered'
  BY <1>1, <1>5 DEF IInv, TypeOK, Numbered
<1> QED BY <1>6, <1>7, <1>8 DEF IInv

LEMMA NotifyStep ==
    ASSUME IInv, NEW v \in Viewers, Notify(v)
    PROVE  IInv'
<1> DEFINE t == ViewOf[v]
<1>1. /\ t \in Tokens /\ pending' = pending \ {v}
      /\ seen' = [seen EXCEPT ![v] = Reading(t)]
      /\ UNCHANGED <<made, live, pinned, claims, phase, home, value, view, subscribed, snapshot,
                     batch, invalidated>>
  BY Constants DEF Notify, storeVars, claimVars
<1>2. Reading(t) \in [keys : SUBSET (Keys \X Keys), values : Values]
  BY <1>1, ReadingFacts DEF IInv
<1>3. /\ seen \in [Viewers -> [keys : SUBSET (Keys \X Keys), values : Values]]
      /\ pending \in SUBSET Viewers
  BY DEF IInv, TypeOK
<1>4. /\ seen'[v] = Reading(t) /\ \A w \in Viewers \ {v} : seen'[w] = seen[w]
      /\ seen' \in [Viewers -> [keys : SUBSET (Keys \X Keys), values : Values]]
  BY <1>1, <1>2, <1>3
<1>5. /\ Sorted(claims, phase)' /\ Shows(claims, phase)' /\ Tells(claims, phase, value)'
      /\ Batched'
  <2>1. \A w \in Viewers \ pending' : subscribed'[w] # 0 =>
               \/ w \notin pending /\ subscribed[w] # 0 /\ seen'[w] = seen[w]
               \/ seen'[w] = Reading(ViewOf[w])
    BY <1>1, <1>4
  <2> QED BY <1>1, <2>1, QuietFacts
<1>6. StoresAreExact' /\ Numbered'
  BY <1>1 DEF IInv, StoresAreExact, Numbered, Members
<1>7. TypeOK'
  BY <1>1, <1>3, <1>4 DEF IInv, TypeOK
<1> QED BY <1>5, <1>6, <1>7 DEF IInv

\* A consumer lets go of a reference: the last one takes the store along.
LEMMA LetGoFacts ==
    ASSUME IInv, NEW v \in Viewers, ViewOf[v] \in live, LetGo(v),
           view' \in [Viewers -> 0..MaxStores], subscribed' \in [Viewers -> 0..MaxStores],
           \A w \in Viewers : view'[w] \in {0, view[w]} /\ subscribed'[w] \in {0, subscribed[w]},
           \A w \in Viewers \ {v} : view'[w] = view[w] /\ subscribed'[w] = subscribed[w],
           seen' \in [Viewers -> [keys : SUBSET (Keys \X Keys), values : Values]],
           pending' \in SUBSET pending,
           \A w \in Viewers \ pending' : subscribed'[w] # 0 =>
               w \notin pending /\ seen'[w] = seen[w]
    PROVE  IInv'
<1> DEFINE t == ViewOf[v]
<1>1. /\ TypeOK /\ Sorted(claims, phase) /\ Shows(claims, phase) /\ Batched /\ StoresAreExact
      /\ t \in Tokens
  BY Constants DEF IInv
<1>2. /\ UNCHANGED <<claims, phase, home, value, batch>> /\ ReleaseIfUnused(t)
      /\ invalidated' = Discarded(t, invalidated) /\ snapshot' = Retained(t)
  BY DEF LetGo, claimVars
<1>3. \A w \in Viewers : ViewOf[w] # t => view'[w] = view[w] /\ subscribed'[w] = subscribed[w]
  OBVIOUS
<1>4. /\ live' \in SUBSET Tokens /\ live' \subseteq live /\ live \subseteq live' \union {t}
      /\ made' = made /\ pinned' = pinned /\ Numbered'
      /\ t \notin live' => /\ claims'[t] = {}
                           /\ \A w \in Viewers : ViewOf[w] = t => subscribed'[w] = 0
      /\ \A s \in Tokens : s \in live' <=>
          \/ s \in pinned' \/ claims'[s] # {}
          \/ \E w \in Viewers : ViewOf[w] = s /\ (view'[w] # 0 \/ subscribed'[w] # 0)
  <2>1. \A s \in Tokens \ {t} : claims'[s] = claims[s]
    BY <1>2
  <2> QED BY <1>1, <1>2, <1>3, <2>1, ReleaseFacts
<1>5. /\ invalidated' \subseteq invalidated /\ invalidated' \in SUBSET Tokens
      /\ invalidated' \subseteq live' /\ \A s \in live' : s \in invalidated => s \in invalidated'
      /\ \A s \in Tokens \ {t} : s \in invalidated => s \in invalidated'
  BY <1>1, <1>2, <1>4 DEF Discarded, TypeOK, StoresAreExact
<1>6. /\ \A s \in Tokens \ {t} : snapshot'[s] = snapshot[s]
      /\ snapshot'[t] = IF t \in live' THEN snapshot[t] ELSE {}
      /\ snapshot' \in [Tokens -> SUBSET (Keys \X Keys)]
  BY <1>1, <1>2 DEF Retained, TypeOK
<1>7. Shows(claims, phase)' /\ Tells(claims, phase, value)'
  <2>1. \A s \in Tokens :
             \/ snapshot'[s] = snapshot[s]
             \/ /\ claims'[s] = {} /\ snapshot'[s] = {}
                /\ \A w \in Viewers : ViewOf[w] = s => subscribed'[w] = 0
    BY <1>4, <1>6
  <2>2. \A s \in Tokens : \A d \in Members(claims'[s]) : phase'[d] = "published" =>
             d \in Members(claims[s]) /\ phase[d] = "published" /\ value'[d] = value[d]
    BY <1>2
  <2>3. \A s \in Tokens \ invalidated' :
             \/ claims'[s] = {} /\ snapshot'[s] = {}
             \/ /\ s \notin invalidated /\ Ids(claims'[s], phase') = Ids(claims[s], phase)
                /\ \A d \in Members(claims'[s]) : phase'[d] # "pending"
                /\ snapshot'[s] = snapshot[s]
    <3> SUFFICES ASSUME NEW s \in Tokens \ invalidated'
                 PROVE  \/ claims'[s] = {} /\ snapshot'[s] = {}
                        \/ /\ s \notin invalidated
                           /\ \A d \in Members(claims[s]) : phase[d] # "pending"
                           /\ snapshot'[s] = snapshot[s]
      BY <1>2
    <3>1. CASE s = t /\ t \notin live'
      BY <1>4, <1>6, <3>1
    <3>2. CASE s # t \/ t \in live'
      <4>1. s \notin invalidated /\ snapshot'[s] = snapshot[s]
        BY <1>5, <1>6, <3>2
      <4> QED BY <1>1, <4>1 DEF Shows
    <3> QED BY <3>1, <3>2
  <2>4. \A w \in Viewers \ pending' : subscribed'[w] # 0 =>
             w \notin pending /\ subscribed[w] # 0 /\ seen'[w] = seen[w]
    OBVIOUS
  <2> QED BY <2>1, <2>2, <2>3, <2>4, KeptFacts
<1>8. StoresAreExact'
  <2>1. \A d \in Claims : d \in Members(claims'[TokenOf[d]]) =>
             d \in Members(claims[TokenOf[d]]) /\ home'[d] = home[d]
    BY <1>2
  <2>2. \A w \in Viewers : /\ view'[w] \in {0, view[w], made'[ViewOf[w]]}
                           /\ subscribed'[w] \in {0, subscribed[w], made'[ViewOf[w]]}
    OBVIOUS
  <2> QED BY <1>4, <1>5, <2>1, <2>2, StoresStay
<1>9. Sorted(claims, phase)' /\ Batched'
  BY <1>1, <1>2, <1>5 DEF Sorted, Members, Batched
<1>10. TypeOK'
  BY <1>1, <1>2, <1>4, <1>5, <1>6 DEF TypeOK
<1> QED BY <1>4, <1>7, <1>8, <1>9, <1>10 DEF IInv

LEMMA CloseViewStep ==
    ASSUME IInv, NEW v \in Viewers, CloseView(v)
    PROVE  IInv'
<1>1. /\ view[v] # 0 /\ view' = [view EXCEPT ![v] = 0] /\ LetGo(v)
      /\ subscribed' = subscribed /\ seen' = seen /\ pending' = pending
  BY DEF CloseView
<1>2. /\ view \in [Viewers -> 0..MaxStores] /\ subscribed \in [Viewers -> 0..MaxStores]
      /\ seen \in [Viewers -> [keys : SUBSET (Keys \X Keys), values : Values]]
      /\ MaxStores \in Nat
  BY Constants DEF IInv, TypeOK
<1>3. ViewOf[v] \in live
  BY <1>1, Constants DEF IInv, StoresAreExact
<1>4. /\ view' \in [Viewers -> 0..MaxStores] /\ view'[v] = 0
      /\ \A w \in Viewers \ {v} : view'[w] = view[w]
  BY <1>1, <1>2
<1> QED BY <1>1, <1>2, <1>3, <1>4, LetGoFacts

LEMMA UnsubscribeStep ==
    ASSUME IInv, NEW v \in Viewers, Unsubscribe(v)
    PROVE  IInv'
<1>1. /\ subscribed[v] # 0 /\ subscribed' = [subscribed EXCEPT ![v] = 0] /\ LetGo(v)
      /\ view' = view /\ seen' = [seen EXCEPT ![v] = Nothing] /\ pending' = pending \ {v}
  BY DEF Unsubscribe
<1>2. /\ view \in [Viewers -> 0..MaxStores] /\ subscribed \in [Viewers -> 0..MaxStores]
      /\ seen \in [Viewers -> [keys : SUBSET (Keys \X Keys), values : Values]]
      /\ MaxStores \in Nat
  BY Constants DEF IInv, TypeOK
<1>3. ViewOf[v] \in live
  BY <1>1, Constants DEF IInv, StoresAreExact
<1>4. /\ subscribed' \in [Viewers -> 0..MaxStores] /\ subscribed'[v] = 0
      /\ \A w \in Viewers \ {v} : subscribed'[w] = subscribed[w] /\ seen'[w] = seen[w]
  BY <1>1, <1>2
<1>5. seen' \in [Viewers -> [keys : SUBSET (Keys \X Keys), values : Values]]
  BY <1>1, <1>2, NothingFacts
<1>6. \A w \in Viewers \ pending' : subscribed'[w] # 0 => w \notin pending /\ seen'[w] = seen[w]
  BY <1>1, <1>4
<1>7. \A w \in Viewers : view'[w] \in {0, view[w]} /\ subscribed'[w] \in {0, subscribed[w]}
  BY <1>1, <1>4
<1> QED BY <1>1, <1>2, <1>3, <1>4, <1>5, <1>6, <1>7, LetGoFacts

-----------------------------------------------------------------------------
(* Transitions.                                                            *)

LEMMA BeginBatchStep == IInv /\ BeginBatch => IInv'
<1> SUFFICES ASSUME IInv, BeginBatch PROVE IInv'
  OBVIOUS
<1>1. /\ batch' = TRUE /\ pending = {}
      /\ UNCHANGED <<made, live, pinned, claims, phase, home, value, view, subscribed, seen,
                     snapshot, pending, invalidated>>
  BY DEF BeginBatch, storeVars, claimVars, viewVars
<1>2. TypeOK' /\ Sorted(claims, phase)' /\ Batched' /\ Numbered' /\ StoresAreExact'
  BY <1>1 DEF IInv, TypeOK, Sorted, Batched, Numbered, StoresAreExact, Members
<1>3. Shows(claims, phase)' /\ Tells(claims, phase, value)'
  BY <1>1 DEF IInv, Shows, Tells, Knows, Members, Ids, Shown
<1> QED BY <1>2, <1>3 DEF IInv

LEMMA EndBatchStep == IInv /\ EndBatch => IInv'
<1> SUFFICES ASSUME IInv, EndBatch PROVE IInv'
  OBVIOUS
<1>1. /\ batch' = FALSE /\ PublishSnapshots(invalidated, claims, phase) /\ invalidated' = {}
      /\ UNCHANGED <<made, live, pinned, claims, home, value, view, subscribed, seen>>
  BY DEF EndBatch, storeVars, viewVars
<1>2. /\ TypeOK /\ Sorted(claims, phase) /\ Shows(claims, phase) /\ Tells(claims, phase, value)
      /\ invalidated \in SUBSET Tokens /\ phase \in [Claims -> Phases]
      /\ claims \in [Tokens -> SUBSET (Claims \X Claims)]
  BY DEF IInv, TypeOK, Phases
<1>3. /\ Sorted(claims', phase) /\ PublishSnapshots(invalidated, claims', phase)
      /\ Tells(claims', phase, value') /\ claims' \in [Tokens -> SUBSET (Claims \X Claims)]
  BY <1>1, <1>2
<1>4. \A t \in Tokens : \A c \in Members(claims'[t]) :
          /\ phase[c] = "pending" => t \in invalidated
          /\ phase[c] = "published" => KeyOf[c] \in Members(snapshot[t])
  BY <1>1, <1>2 DEF Shows
<1>5. \A t \in Tokens \ invalidated : snapshot[t] = Ids(claims'[t], phase)
  BY <1>1, <1>2 DEF Shows
<1>6. /\ snapshot' \in [Tokens -> SUBSET (Keys \X Keys)] /\ pending' \in SUBSET Viewers
      /\ phase' \in [Claims -> Phases]
      /\ Sorted(claims, phase)' /\ Shows(claims, phase)' /\ Tells(claims, phase, value)'
  BY <1>1, <1>2, <1>3, <1>4, <1>5, PublishFacts
<1>7. StoresAreExact' /\ Numbered' /\ Batched'
  BY <1>1 DEF IInv, StoresAreExact, Numbered, Batched, Members
<1>8. TypeOK'
  BY <1>1, <1>2, <1>6 DEF TypeOK, Phases
<1> QED BY <1>6, <1>7, <1>8 DEF IInv

-----------------------------------------------------------------------------
(* Theorems.                                                               *)

LEMMA StepInvariant == IInv /\ [Next]_vars => IInv'
<1> SUFFICES ASSUME IInv, [Next]_vars PROVE IInv'
  OBVIOUS
<1>1. CASE UNCHANGED vars
  <2>1. UNCHANGED <<made, live, pinned, claims, phase, home, value, view, subscribed, seen,
                    snapshot, pending, batch, invalidated>>
    BY <1>1 DEF vars, storeVars, claimVars, viewVars
  <2>2. TypeOK'
    BY <2>1 DEF IInv, TypeOK
  <2>3. Numbered' /\ StoresAreExact'
    BY <2>1 DEF IInv, Numbered, StoresAreExact, Members
  <2>4. /\ Sorted(claims, phase)' /\ Shows(claims, phase)' /\ Tells(claims, phase, value)'
        /\ Batched'
    BY <2>1, QuietFacts
  <2> QED BY <2>2, <2>3, <2>4 DEF IInv
<1>2. ASSUME NEW c \in Claims, Stage(c) \/ Add(c) \/ Publish(c) \/ Update(c) \/ DisposeClaim(c)
      PROVE  IInv'
  BY <1>2, StageStep, AddStep, PublishStep, UpdateStep, DisposeClaimStep
<1>3. ASSUME NEW t \in Tokens, HostView(t) PROVE IInv'
  BY <1>3, HostViewStep
<1>4. ASSUME NEW v \in Viewers,
             OpenView(v) \/ Subscribe(v) \/ CloseView(v) \/ Unsubscribe(v) \/ Notify(v)
      PROVE  IInv'
  BY <1>4, OpenViewStep, SubscribeStep, CloseViewStep, UnsubscribeStep, NotifyStep
<1>5. CASE BeginBatch \/ EndBatch
  BY <1>5, BeginBatchStep, EndBatchStep
<1> QED BY <1>1, <1>2, <1>3, <1>4, <1>5 DEF Next

\* The inductive invariant: what is published is claimed, and who is not about
\* to be told knows it, during transitions and between them.
THEOREM Invariance == Spec => []IInv
BY InitInvariant, StepInvariant, PTL DEF Spec

\* Between transitions subscribers have seen what is claimed (contribution-store.ts
\* 348-361, snapshot-view.ts 52-69, 105-110).
THEOREM FinalSet == Spec => []SubscribersSeeTheFinalSet
<1>1. IInv => SubscribersSeeTheFinalSet
  <2> SUFFICES ASSUME IInv, ~batch, NEW t \in Tokens
               PROVE  /\ snapshot[t] = Ids(claims[t], phase)
                      /\ \A v \in Subscribers(t) \ pending : seen[v] = Reading(t)
    BY DEF SubscribersSeeTheFinalSet
  <2>1. invalidated = {} /\ Shows(claims, phase) /\ Tells(claims, phase, value)
    BY DEF IInv, Batched
  <2>2. ASSUME NEW v \in Subscribers(t) \ pending PROVE seen[v] = Reading(t)
    <3>1. v \in Viewers /\ ViewOf[v] = t /\ Knows(v, claims, phase, value)
      BY <2>1 DEF Subscribers, Tells
    <3> QED BY <2>1, <3>1, KnowingIsSeeing
  <2> QED BY <2>1, <2>2 DEF Shows
<1> QED BY <1>1, Invariance, PTL

\* A store lives exactly as long as something refers to it
\* (contribution-store.ts 371-388, 448-463).
THEOREM ExactStores == Spec => []StoresAreExact
<1>1. IInv => StoresAreExact
  BY DEF IInv
<1> QED BY <1>1, Invariance, PTL

\* Nobody is told or reads anything of a transition before it ends
\* (engine.ts 412-413, 496).
THEOREM AtomicTransitions == Spec => TransitionsAreAtomic
<1> DEFINE A == batch /\ batch' =>
                  /\ pending' \subseteq pending
                  /\ \A t \in live \intersect live' : snapshot'[t] = snapshot[t]
<1>1. ASSUME IInv, [Next]_vars, batch, batch'
      PROVE  pending' \subseteq pending /\ \A t \in live \intersect live' : snapshot'[t] = snapshot[t]
  <2>1. ASSUME NEW T \in SUBSET Tokens, snapshot' = snapshot PROVE \A t \in T : snapshot'[t] = snapshot[t]
    BY <2>1
  <2>2. CASE UNCHANGED vars
    BY <2>2 DEF vars
  <2>3. ASSUME NEW c \in Claims, Stage(c) \/ Add(c) \/ Publish(c) \/ Update(c)
        PROVE  pending' = pending /\ snapshot' = snapshot
    BY <1>1, <2>3 DEF Stage, Add, Publish, Update, ValueChanged, Invalidate, Batching
  <2>4. ASSUME NEW t \in Tokens, snapshot' = Retained(t)
        PROVE  \A s \in live \intersect live' : snapshot'[s] = snapshot[s]
    BY <1>1, <2>4 DEF Retained, IInv, TypeOK
  <2>5. ASSUME NEW c \in Claims, DisposeClaim(c)
        PROVE  pending' = pending /\ snapshot' = Retained(TokenOf[c]) /\ TokenOf[c] \in Tokens
    BY <1>1, <2>5, Constants DEF DisposeClaim, ClaimRemoved, Batching
  <2>6. ASSUME NEW t \in Tokens, HostView(t) PROVE pending' = pending /\ snapshot' = snapshot
    BY <2>6 DEF HostView
  <2>7. ASSUME NEW v \in Viewers, OpenView(v) \/ Subscribe(v) \/ Notify(v)
        PROVE  pending' \subseteq pending /\ snapshot' = snapshot
    BY <2>7 DEF OpenView, Subscribe, Notify
  <2>8. ASSUME NEW v \in Viewers, CloseView(v) \/ Unsubscribe(v)
        PROVE  pending' \subseteq pending /\ snapshot' = Retained(ViewOf[v]) /\ ViewOf[v] \in Tokens
    BY <2>8, Constants DEF CloseView, Unsubscribe, LetGo
  <2>9. ~(BeginBatch \/ EndBatch)
    BY <1>1 DEF BeginBatch, EndBatch
  <2>10. CASE \E c \in Claims : Stage(c) \/ Add(c) \/ Publish(c) \/ Update(c)
    BY <2>3, <2>10
  <2>11. CASE \E c \in Claims : DisposeClaim(c)
    BY <2>4, <2>5, <2>11
  <2>12. CASE \E t \in Tokens : HostView(t)
    BY <2>6, <2>12
  <2>13. CASE \E v \in Viewers : OpenView(v) \/ Subscribe(v) \/ Notify(v)
    BY <2>7, <2>13
  <2>14. CASE \E v \in Viewers : CloseView(v) \/ Unsubscribe(v)
    BY <2>4, <2>8, <2>14
  <2> QED BY <1>1, <2>2, <2>9, <2>10, <2>11, <2>12, <2>13, <2>14 DEF Next
<1>2. IInv /\ [Next]_vars => [A]_vars
  BY <1>1
<1> HIDE DEF A
<1>3. Spec => [][A]_vars
  BY <1>2, Invariance, PTL DEF Spec
<1> QED BY <1>3 DEF TransitionsAreAtomic, A
=============================================================================
