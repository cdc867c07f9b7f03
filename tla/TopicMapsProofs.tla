--------------------------- MODULE TopicMapsProofs --------------------------
(***************************************************************************)
(* Theorems about TopicMaps, for any topics, processes, nodes, message     *)
(* types and addresses: the nested maps keep their shape, every query      *)
(* answers what the set of publishers says, and every operation changes    *)
(* that set as TopicStorage's operators say.                               *)
(***************************************************************************)
EXTENDS TopicMaps, TLAPS

\* e stands in the maps at topic t and process p.
Stands(e, t, p) == t \in DOMAIN data /\ p \in DOMAIN data[t] /\ e \in data[t][p]

\* Everything in the maps is a publisher under its own topic and process.
InPlace == \A e, t, p : Stands(e, t, p) => e \in Publisher /\ t = e.topic /\ p = e.proc

-----------------------------------------------------------------------------
(* The shape of the maps, told by what stands where.                       *)

\* Entries are what stands somewhere.
LEMMA EntryStands == \A e : e \in Entries <=> \E t, p : Stands(e, t, p)
  BY DEF Entries, Stands

\* In well-formed maps an entry stands under its own keys only.
LEMMA EntryInPlace ==
  ASSUME InPlace
  PROVE  \A e : /\ e \in Entries <=> Stands(e, e.topic, e.proc)
                /\ e \in Entries => e \in Publisher
  BY EntryStands DEF InPlace

LEMMA EntryStandsNext == (\A e : e \in Entries <=> \E t, p : Stands(e, t, p))'
  BY EntryStands, PTL

LEMMA WellFormedInPlace ==
  ASSUME WellFormed
  PROVE  InPlace
  BY DEF WellFormed, Typed, Filed, InPlace, Stands

\* What a publisher is made of.
LEMMA PublisherParts ==
  \A pub \in Publisher : /\ pub.topic \in Topics /\ pub.proc \in Procs /\ pub.node \in Nodes
                         /\ pub.type \in Types /\ pub.addr = AddrOf[pub.proc]
  BY DEF Publisher

\* Maps without empty keys whose entries are in place are well formed.
LEMMA InPlaceWellFormed ==
  result \in BOOLEAN /\ InPlace /\ NoEmptyKey /\ OneOfAKey => WellFormed
<1> SUFFICES ASSUME result \in BOOLEAN, InPlace, NoEmptyKey, OneOfAKey
             PROVE  WellFormed
  OBVIOUS
<1>1. ASSUME NEW t \in DOMAIN data, NEW p \in DOMAIN data[t]
      PROVE  /\ t \in Topics /\ p \in Procs /\ data[t][p] \subseteq Publisher
             /\ \A pub \in data[t][p] : pub.topic = t /\ pub.proc = p
  <2>1. \A e \in data[t][p] : e \in Publisher /\ t = e.topic /\ p = e.proc
    BY DEF InPlace, Stands
  <2>2. PICK e : e \in data[t][p]
    BY DEF NoEmptyKey
  <2> QED
    BY <2>1, <2>2, PublisherParts
<1>2. Filed
  BY <1>1 DEF Filed
<1>3. DOMAIN data \subseteq Topics
  BY <1>1 DEF NoEmptyKey
<1>4. Typed
  BY <1>1, <1>3 DEF Typed
<1> QED
  BY <1>2, <1>4 DEF WellFormed

-----------------------------------------------------------------------------
(* What each operation does to what stands where.                          *)

\* addPublisher enters the publisher under its keys, or finds one with its
\* key, which then keeps its place.
LEMMA AddStands ==
  ASSUME WellFormed, NEW pub \in Publisher, Add(pub)
  PROVE  /\ result' = ~Contains(Entries, pub)
         /\ Contains(Entries, pub) => UNCHANGED data
         /\ ~Contains(Entries, pub) =>
               /\ NoEmptyKey'
               /\ \A e, t, p : Stands(e, t, p)' <=>
                     (Stands(e, t, p) \/ (e = pub /\ t = pub.topic /\ p = pub.proc))
<1> DEFINE procs == At(data, pub.topic, Nothing)
           list  == At(procs, pub.proc, {})
           taken == \E e \in list : e.addr = pub.addr /\ e.node = pub.node
           inner == With(procs, pub.proc, list \union {pub})
<1>1. /\ taken => result' = FALSE /\ UNCHANGED data
      /\ ~taken => data' = With(data, pub.topic, inner) /\ result' = TRUE
  BY DEF Add
<1>2. DOMAIN procs = IF pub.topic \in DOMAIN data THEN DOMAIN data[pub.topic] ELSE {}
  BY DEF At, Nothing
<1>3. \A p : p \in DOMAIN procs => procs[p] = data[pub.topic][p]
  BY <1>2 DEF At
<1>4. \A e : e \in list <=> Stands(e, pub.topic, pub.proc)
  BY <1>2, <1>3 DEF At, Stands
<1> HIDE DEF procs, list
<1>5. taken <=> Contains(Entries, pub)
  <2>1. InPlace
    BY WellFormedInPlace
  <2>2. \A e \in list : /\ e \in Publisher /\ e \in Entries
                        /\ e.topic = pub.topic /\ e.proc = pub.proc /\ e.addr = pub.addr
    BY <1>4, <2>1, EntryStands, PublisherParts DEF InPlace
  <2>3. \A e \in Entries : SameKey(e, pub) => e \in list /\ e.node = pub.node
    BY <1>4, <2>1, EntryInPlace DEF SameKey
  <2> QED
    BY <2>2, <2>3 DEF Contains, SameKey
<1> HIDE DEF taken
<1>6. CASE taken
  BY <1>1, <1>5, <1>6
<1>7. CASE ~taken
  <2>1. /\ DOMAIN inner = DOMAIN procs \union {pub.proc}
        /\ inner[pub.proc] = list \union {pub}
        /\ \A p \in DOMAIN procs : p # pub.proc => inner[p] = procs[p]
    BY DEF With
  <2>2. data' = With(data, pub.topic, inner) /\ result' = TRUE
    BY <1>1, <1>7
  <2> HIDE DEF inner
  <2>3. /\ DOMAIN data' = DOMAIN data \union {pub.topic}
        /\ data'[pub.topic] = inner
        /\ \A t \in DOMAIN data : t # pub.topic => data'[t] = data[t]
    BY <2>2 DEF With
  <2>4. ASSUME NEW e, NEW t, NEW p
        PROVE  Stands(e, t, p)' <=> (Stands(e, t, p) \/ (e = pub /\ t = pub.topic /\ p = pub.proc))
    <3>1. CASE t # pub.topic
      BY <3>1, <2>3 DEF Stands
    <3>2. CASE t = pub.topic /\ p # pub.proc
      BY <3>2, <1>2, <1>3, <2>1, <2>3 DEF Stands
    <3>3. CASE t = pub.topic /\ p = pub.proc
      BY <3>3, <1>4, <2>1, <2>3 DEF Stands
    <3> QED
      BY <3>1, <3>2, <3>3
  <2>5. NoEmptyKey'
    <3>1. ASSUME NEW t \in DOMAIN data'
          PROVE  DOMAIN data'[t] # {} /\ \A p \in DOMAIN data'[t] : data'[t][p] # {}
      <4>1. CASE t # pub.topic
        BY <4>1, <2>3 DEF WellFormed, NoEmptyKey
      <4>2. CASE t = pub.topic
        <5>1. \A p \in DOMAIN procs : procs[p] # {}
          BY <1>2, <1>3 DEF WellFormed, NoEmptyKey
        <5> QED
          BY <4>2, <5>1, <2>1, <2>3
      <4> QED
        BY <4>1, <4>2
    <3> QED
      BY <3>1 DEF NoEmptyKey
  <2> QED
    BY <1>5, <1>7, <2>2, <2>4, <2>5
<1> QED
  BY <1>6, <1>7

\* delPublishersByNode takes the publishers of the key and no other.
LEMMA RemoveNodeStands ==
  ASSUME WellFormed, NEW key \in Key, RemoveNode(key)
  PROVE  /\ result' = Contains(Entries, key)
         /\ NoEmptyKey'
         /\ \A e, t, p : Stands(e, t, p)' <=> (Stands(e, t, p) /\ ~SameKey(e, key))
<1> DEFINE list  == data[key.topic][key.proc]
           left  == {e \in list : e.node # key.node}
           there == key.topic \in DOMAIN data /\ key.proc \in DOMAIN data[key.topic]
           procs == IF left = {} THEN Without(data[key.topic], key.proc)
                                 ELSE With(data[key.topic], key.proc, left)
<1>1. InPlace
  BY WellFormedInPlace
<1>2. \A e, t, p : (Stands(e, t, p) /\ SameKey(e, key)) <=>
                      (there /\ t = key.topic /\ p = key.proc /\ e \in list /\ e.node = key.node)
  BY <1>1 DEF InPlace, Stands, SameKey
<1>3. Contains(Entries, key) = (there /\ left # list)
  <2>1. Contains(Entries, key) <=> \E e, t, p : Stands(e, t, p) /\ SameKey(e, key)
    BY EntryStands DEF Contains
  <2>2. left # list <=> \E e \in list : e.node = key.node
    OBVIOUS
  <2>3. Contains(Entries, key) <=> (there /\ left # list)
    <3> HIDE DEF left, list, there
    <3> QED
      BY <2>1, <2>2, <1>2
  <2>4. Contains(Entries, key) \in BOOLEAN /\ (there /\ left # list) \in BOOLEAN
    BY DEF Contains
  <2> HIDE DEF left, list, there
  <2> QED
    BY <2>3, <2>4
<1>4. CASE ~there
  <2>1. UNCHANGED data /\ result' = FALSE
    BY <1>4 DEF RemoveNode
  <2>2. NoEmptyKey'
    BY <2>1 DEF WellFormed, NoEmptyKey
  <2>3. \A e, t, p : Stands(e, t, p)' <=> Stands(e, t, p)
    BY <2>1 DEF Stands
  <2> HIDE DEF left, list, there
  <2> QED
    BY <1>2, <1>3, <1>4, <2>1, <2>2, <2>3
<1>5. CASE there
  <2>1. /\ data' = IF DOMAIN procs = {} THEN Without(data, key.topic)
                                        ELSE With(data, key.topic, procs)
        /\ result' = (left # list)
    BY <1>5 DEF RemoveNode
  <2>2. /\ DOMAIN procs = DOMAIN data[key.topic] \ (IF left = {} THEN {key.proc} ELSE {})
        /\ left # {} => procs[key.proc] = left
        /\ \A p \in DOMAIN procs : p # key.proc => procs[p] = data[key.topic][p]
    BY <1>5 DEF With, Without, Restrict
  <2>3. \A e : e \in left <=> (e \in list /\ e.node # key.node)
    OBVIOUS
  <2> HIDE DEF procs
  <2>4. /\ DOMAIN data' = DOMAIN data \ (IF DOMAIN procs = {} THEN {key.topic} ELSE {})
        /\ DOMAIN procs # {} => data'[key.topic] = procs
        /\ \A t \in DOMAIN data' : t # key.topic => data'[t] = data[t]
    BY <1>5, <2>1 DEF With, Without, Restrict
  <2>5. ASSUME NEW e, NEW t, NEW p
        PROVE  Stands(e, t, p)' <=> (Stands(e, t, p) /\ ~SameKey(e, key))
    <3>1. CASE t # key.topic
      <4>1. Stands(e, t, p)' <=> Stands(e, t, p)
        BY <3>1, <2>4 DEF Stands
      <4> QED
        BY <3>1, <4>1, <1>2
    <3>2. CASE t = key.topic /\ p # key.proc
      <4>1. Stands(e, t, p)' <=> Stands(e, t, p)
        BY <3>2, <1>5, <2>2, <2>4 DEF Stands
      <4> QED
        BY <3>2, <4>1, <1>2
    <3>3. CASE t = key.topic /\ p = key.proc
      <4>1. Stands(e, t, p)' <=> e \in left
        BY <3>3, <1>5, <2>2, <2>4 DEF Stands
      <4>2. Stands(e, t, p) <=> e \in list
        BY <3>3, <1>5 DEF Stands
      <4> HIDE DEF left, list, there
      <4> QED
        BY <3>3, <1>2, <1>5, <2>3, <4>1, <4>2
    <3> QED
      BY <3>1, <3>2, <3>3
  <2>6. NoEmptyKey'
    <3>1. ASSUME NEW t \in DOMAIN data'
          PROVE  DOMAIN data'[t] # {} /\ \A p \in DOMAIN data'[t] : data'[t][p] # {}
      <4>1. CASE t # key.topic
        BY <4>1, <2>4 DEF WellFormed, NoEmptyKey
      <4>2. CASE t = key.topic
        <5>1. DOMAIN procs # {} /\ data'[t] = procs
          BY <4>2, <2>4
        <5>2. \A p \in DOMAIN procs : procs[p] # {}
          <6> HIDE DEF left
          <6> QED
            BY <1>5, <2>2 DEF WellFormed, NoEmptyKey
        <5> QED
          BY <5>1, <5>2
      <4> QED
        BY <4>1, <4>2
    <3> QED
      BY <3>1 DEF NoEmptyKey
  <2> HIDE DEF left, list, there
  <2> QED
    BY <1>3, <1>5, <2>1, <2>5, <2>6
<1> QED
  BY <1>4, <1>5

\* delPublishersByProc takes the publishers of the process and no other.
LEMMA RemoveProcStands ==
  ASSUME WellFormed, NEW q \in Procs, RemoveProc(q)
  PROVE  /\ result' = HasPublisher(Entries, q)
         /\ NoEmptyKey'
         /\ \A e, t, p : Stands(e, t, p)' <=> (Stands(e, t, p) /\ e.proc # q)
<1>1. InPlace
  BY WellFormedInPlace
<1>2. /\ DOMAIN data' = {t \in DOMAIN data : DOMAIN data[t] \ {q} # {}}
      /\ \A t \in DOMAIN data' : /\ DOMAIN data'[t] = DOMAIN data[t] \ {q}
                                 /\ \A p \in DOMAIN data'[t] : data'[t][p] = data[t][p]
  BY DEF RemoveProc, Without, Restrict
<1>3. result' <=> HasPublisher(Entries, q)
  <2>1. result' <=> \E t \in DOMAIN data : q \in DOMAIN data[t]
    BY DEF RemoveProc
  <2>2. \A t : (t \in DOMAIN data /\ q \in DOMAIN data[t]) <=> \E e : Stands(e, t, q)
    BY DEF Stands, WellFormed, NoEmptyKey
  <2>3. HasPublisher(Entries, q) <=> \E e, t, p : Stands(e, t, p) /\ e.proc = q
    BY EntryStands DEF HasPublisher, GetPublishersByProc
  <2>4. (\E e, t, p : Stands(e, t, p) /\ e.proc = q) <=> \E e, t : Stands(e, t, q)
    BY <1>1 DEF InPlace
  <2> QED
    BY <2>1, <2>2, <2>3, <2>4
<1>4. ASSUME NEW e, NEW t, NEW p
      PROVE  Stands(e, t, p)' <=> (Stands(e, t, p) /\ p # q)
  BY <1>2 DEF Stands
<1>5. \A e, t, p : Stands(e, t, p)' <=> (Stands(e, t, p) /\ e.proc # q)
  BY <1>1, <1>4 DEF InPlace
<1>6. NoEmptyKey'
  BY <1>2 DEF WellFormed, NoEmptyKey
<1>7. result' \in BOOLEAN /\ HasPublisher(Entries, q) \in BOOLEAN
  BY DEF RemoveProc, HasPublisher
<1> QED
  BY <1>3, <1>5, <1>6, <1>7

-----------------------------------------------------------------------------
(* The shape is kept.                                                      *)

LEMMA InitWellFormed == Init => WellFormed
  BY DEF Init, Nothing, WellFormed, Typed, Filed, NoEmptyKey, OneOfAKey, Entries

\* Removing keeps what is left in place, and no two of a key.
LEMMA FewerWellFormed ==
  ASSUME WellFormed, NoEmptyKey', result' \in BOOLEAN,
         \A e, t, p : Stands(e, t, p)' => Stands(e, t, p)
  PROVE  WellFormed'
<1>1. InPlace
  BY WellFormedInPlace
<1>2. InPlace'
  BY <1>1 DEF InPlace
<1>3. \A e : e \in Entries' => e \in Entries
  BY EntryStands, EntryStandsNext
<1>4. OneOfAKey'
  BY <1>3 DEF WellFormed, OneOfAKey
<1>5. (result \in BOOLEAN /\ InPlace /\ NoEmptyKey /\ OneOfAKey => WellFormed)'
  BY InPlaceWellFormed, PTL
<1> QED
  BY <1>2, <1>4, <1>5
\* addPublisher keeps the shape and adds the publisher to the set.
LEMMA AddStep ==
  ASSUME WellFormed, NEW pub \in Publisher, Add(pub)
  PROVE  WellFormed' /\ Table!Add(pub)
<1>1. result' = ~Contains(Entries, pub) /\ result' \in BOOLEAN
  BY AddStands
<1>2. CASE Contains(Entries, pub)
  <2>1. UNCHANGED data
    BY <1>2, AddStands
  <2>2. Entries' = Entries
    BY <2>1 DEF Entries
  <2>3. WellFormed'
    BY <1>1, <2>1, <2>2 DEF WellFormed, Typed, Filed, NoEmptyKey, OneOfAKey
  <2> QED
    BY <1>1, <1>2, <2>2, <2>3 DEF Table!Add, Table!AddPublisher, Table!Contains, Table!SameKey,
                                 Contains, SameKey
<1>3. CASE ~Contains(Entries, pub)
  <2>1. /\ NoEmptyKey'
        /\ \A e, t, p : Stands(e, t, p)' <=>
              (Stands(e, t, p) \/ (e = pub /\ t = pub.topic /\ p = pub.proc))
    BY <1>3, AddStands
  <2>2. Entries' = Entries \union {pub}
    BY <2>1, EntryStands, EntryStandsNext
  <2>3. InPlace'
    BY <2>1, WellFormedInPlace DEF InPlace
  <2>4. OneOfAKey'
    BY <1>3, <2>2 DEF WellFormed, OneOfAKey, Contains, SameKey
  <2>5. (result \in BOOLEAN /\ InPlace /\ NoEmptyKey /\ OneOfAKey => WellFormed)'
    BY InPlaceWellFormed, PTL
  <2>6. WellFormed'
    BY <1>1, <2>1, <2>3, <2>4, <2>5
  <2> QED
    BY <1>1, <1>3, <2>2, <2>6 DEF Table!Add, Table!AddPublisher, Table!Contains, Table!SameKey,
                                 Contains, SameKey
<1> QED
  BY <1>2, <1>3

\* delPublishersByNode keeps the shape and takes the key from the set.
LEMMA RemoveNodeStep ==
  ASSUME WellFormed, NEW key \in Key, RemoveNode(key)
  PROVE  WellFormed' /\ Table!RemoveNode(key)
<1>1. /\ result' = Contains(Entries, key)
      /\ NoEmptyKey'
      /\ \A e, t, p : Stands(e, t, p)' <=> (Stands(e, t, p) /\ ~SameKey(e, key))
  BY RemoveNodeStands
<1>2. WellFormed'
  <2>1. result' \in BOOLEAN
    BY <1>1 DEF Contains
  <2> QED
    BY <1>1, <2>1, FewerWellFormed
<1>3. Entries' = {e \in Entries : ~SameKey(e, key)}
  BY <1>1, EntryStands, EntryStandsNext
<1> QED
  BY <1>1, <1>2, <1>3 DEF Table!RemoveNode, Table!DelPublishersByNode, Table!Contains,
                          Table!SameKey, Contains, SameKey

\* delPublishersByProc keeps the shape and takes the process from the set.
LEMMA RemoveProcStep ==
  ASSUME WellFormed, NEW q \in Procs, RemoveProc(q)
  PROVE  WellFormed' /\ Table!RemoveProc(q)
<1>1. /\ result' = HasPublisher(Entries, q)
      /\ NoEmptyKey'
      /\ \A e, t, p : Stands(e, t, p)' <=> (Stands(e, t, p) /\ e.proc # q)
  BY RemoveProcStands
<1>2. WellFormed'
  <2>1. result' \in BOOLEAN
    BY <1>1 DEF HasPublisher
  <2> QED
    BY <1>1, <2>1, FewerWellFormed
<1>3. Entries' = {e \in Entries : e.proc # q}
  BY <1>1, EntryStands, EntryStandsNext
<1>4. {e \in Entries : e.proc # q} = {e \in Entries : e.proc \notin {q}}
  OBVIOUS
<1> QED
  BY <1>1, <1>2, <1>3, <1>4 DEF Table!RemoveProc, Table!DelPublishersByProc, Table!HasPublisher,
                          Table!GetPublishersByProc, HasPublisher, GetPublishersByProc

LEMMA ClearStep ==
  ASSUME WellFormed, Clear
  PROVE  WellFormed' /\ Table!Clear
  BY DEF Clear, Nothing, WellFormed, Typed, Filed, NoEmptyKey, OneOfAKey, Entries, Table!Clear

\* A step of the maps keeps their shape and is a step of the set.
LEMMA TableStep == WellFormed /\ [Next]_vars => WellFormed' /\ [Table!Next]_<<Entries, result>>
<1> SUFFICES ASSUME WellFormed, [Next]_vars
             PROVE  WellFormed' /\ [Table!Next]_<<Entries, result>>
  OBVIOUS
<1>1. ASSUME NEW pub \in Publisher, Add(pub)
      PROVE  WellFormed' /\ Table!Next
  BY <1>1, AddStep DEF Table!Next
<1>2. ASSUME NEW key \in Key, RemoveNode(key)
      PROVE  WellFormed' /\ Table!Next
  BY <1>2, RemoveNodeStep DEF Table!Next
<1>3. ASSUME NEW p \in Procs, RemoveProc(p)
      PROVE  WellFormed' /\ Table!Next
  BY <1>3, RemoveProcStep DEF Table!Next
<1>4. ASSUME Clear
      PROVE  WellFormed' /\ Table!Next
  BY <1>4, ClearStep DEF Table!Next
<1>5. CASE UNCHANGED vars
  <2>1. UNCHANGED <<data, result, Entries>>
    BY <1>5 DEF vars, Entries
  <2> QED
    BY <2>1 DEF WellFormed, Typed, Filed, NoEmptyKey, OneOfAKey
<1> QED
  BY <1>1, <1>2, <1>3, <1>4, <1>5 DEF Next

\* The queries follow from the shape.
LEMMA WellFormedQueries ==
  ASSUME WellFormed
  PROVE  QueriesAgree
<1>1. InPlace
  BY WellFormedInPlace
<1>2. \A e : /\ e \in Entries <=> Stands(e, e.topic, e.proc)
             /\ e \in Entries => e \in Publisher
  BY <1>1, EntryInPlace
<1>3. \A t : HasTopic(t) <=> \E e, p : Stands(e, t, p)
  BY DEF HasTopic, Stands, WellFormed, NoEmptyKey
<1>4. \A t, p : HasAnyPublishers(t, p) <=> \E e : Stands(e, t, p)
  BY DEF HasAnyPublishers, HasTopic, Stands, WellFormed, NoEmptyKey
<1>5. \A t, e : e \in OfTopic(t) <=> \E p : Stands(e, t, p)
  BY DEF OfTopic, HasTopic, Stands
<1>6. \A q, e : e \in OfProc(q) <=> \E t : Stands(e, t, q)
  BY DEF OfProc, Stands
<1>7. \A t, p, n, e : e \in Found(t, p, n) <=> (Stands(e, t, p) /\ e.node = n)
  BY DEF Found, HasAnyPublishers, HasTopic, Stands
<1>8. ASSUME NEW t \in Topics
      PROVE  /\ HasTopic(t) <=> GetPublishers(Entries, t) # {}
             /\ OfTopic(t) = GetPublishers(Entries, t)
  BY <1>1, <1>2, <1>3, <1>5 DEF InPlace, GetPublishers
<1>9. ASSUME NEW t \in Topics, NEW type \in Types
      PROVE  HasTopicOfType(t, type) <=>
                \E e \in GetPublishers(Entries, t) : e.type \in {type, Generic}
  <2>1. HasTopicOfType(t, type) <=> \E e, p : Stands(e, t, p) /\ e.type \in {type, Generic}
    BY DEF HasTopicOfType, HasTopic, Stands
  <2> QED
    BY <1>1, <1>2, <2>1 DEF InPlace, GetPublishers
<1>10. ASSUME NEW t \in Topics, NEW p \in Procs
       PROVE  HasAnyPublishers(t, p) <=> \E e \in GetPublishers(Entries, t) : e.proc = p
  BY <1>1, <1>2, <1>4 DEF InPlace, GetPublishers
<1>11. ASSUME NEW p \in Procs
       PROVE  OfProc(p) = GetPublishersByProc(Entries, p)
  BY <1>1, <1>2, <1>6 DEF InPlace, GetPublishersByProc
<1>12. ASSUME NEW p \in Procs, \A q \in Procs : AddrOf[q] = AddrOf[p] => q = p
       PROVE  HasAddress(AddrOf[p]) <=> HasPublisher(Entries, p)
  <2>1. HasAddress(AddrOf[p]) <=> \E e \in Entries : e.addr = AddrOf[p]
    BY EntryStands DEF HasAddress, Stands
  <2>2. \A e \in Entries : e.addr = AddrOf[p] <=> e.proc = p
    BY <1>2, <1>12, PublisherParts
  <2> QED
    BY <2>1, <2>2 DEF HasPublisher, GetPublishersByProc
<1>13. ASSUME NEW key \in Key
       PROVE  Found(key.topic, key.proc, key.node) = {e \in Entries : SameKey(e, key)}
  BY <1>1, <1>2, <1>7 DEF InPlace, SameKey
<1>14. TopicList = {e.topic : e \in Entries}
  <2>1. \A t : t \in TopicList <=> \E e, p : Stands(e, t, p)
    BY <1>3 DEF TopicList, HasTopic
  <2>2. \A t : (\E e, p : Stands(e, t, p)) <=> \E e \in Entries : e.topic = t
    BY <1>1, <1>2 DEF InPlace
  <2> QED
    BY <2>1, <2>2
<1>15. ASSUME NEW p \in Procs, NEW n \in Nodes
       PROVE  OfNode(p, n) = {e \in GetPublishersByProc(Entries, p) : e.node = n}
  BY <1>11 DEF OfNode
<1> QED
  BY <1>8, <1>9, <1>10, <1>11, <1>12, <1>13, <1>14, <1>15 DEF QueriesAgree

-----------------------------------------------------------------------------
\* The nested maps of topic_storage.hpp keep their shape: no publisher under
\* a wrong key, no key left empty, no two publishers of one key.
THEOREM ShapeKept == Spec => []WellFormed
<1>1. WellFormed /\ [Next]_vars => WellFormed'
  BY TableStep
<1> QED
  BY <1>1, InitWellFormed, PTL DEF Spec

\* Each query of topic_storage.hpp answers what the set of publishers says.
THEOREM QueriesAnswer == Spec => []QueriesAgree
<1>1. WellFormed => QueriesAgree
  BY WellFormedQueries
<1> QED
  BY <1>1, ShapeKept, PTL

\* The nested maps implement the set that Discovery and MessageRuntime use.
THEOREM MapsAreTable == Spec => ImplementsTopicTable
<1>1. Init => Table!Init
  BY DEF Init, Nothing, Entries, Table!Init
<1>2. WellFormed /\ [Next]_vars => [Table!Next]_<<Entries, result>>
  BY TableStep
<1>3. WellFormed => SameOperation
  BY AddStep, RemoveNodeStep, RemoveProcStep DEF SameOperation
<1>4. WellFormed => [SameOperation]_vars
  BY <1>3
<1> QED
  BY <1>1, <1>2, <1>4, ShapeKept, PTL DEF Spec, ImplementsTopicTable, Table!Spec
=============================================================================
