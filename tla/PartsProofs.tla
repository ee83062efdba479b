----------------------------- MODULE PartsProofs -----------------------------
(***************************************************************************)
(* What holds of three parts which work alone: of Geolocation whatever the *)
(* addresses, the databases and the dates of the clean-ups; of HttpWorker  *)
(* whatever the interval of the notifications and the length of the        *)
(* queues, and however the steps of the thread and those of the main loop  *)
(* are interleaved; of Account whatever the features, the slots, their     *)
(* prices and the purchases, and wherever the application is killed.  The  *)
(* balance is a sum over a set: induction over the number of its elements  *)
(* proves that one more element adds what it is worth.                     *)
(***************************************************************************)
EXTENDS Geolocation, HttpWorker, Account, FiniteSetTheorems, SequenceTheorems,
        WellFoundedInduction, TLAPS

-----------------------------------------------------------------------------
(* The tables.                                                             *)

\* What Less makes of a table.
LEMMA LessTable ==
  ASSUME NEW f, NEW S
  PROVE  /\ DOMAIN Less(f, S) = DOMAIN f \ S
         /\ \A y \in DOMAIN f \ S : Less(f, S)[y] = f[y]
BY DEF Less, Restrict

-----------------------------------------------------------------------------
(* The inductive invariant.                                                *)

\* The three tables have the same addresses, with numbers already given.
TablesMatch ==
  /\ nextId \in Nat /\ version \in Nat
  /\ DOMAIN ipToId \subseteq Addresses
  /\ \A ip \in DOMAIN ipToId : ipToId[ip] \in DOMAIN addressInfo
  /\ DOMAIN addressInfo = DOMAIN releaseDate
  /\ \A id \in DOMAIN addressInfo :
       /\ id \in Nat /\ id < nextId
       /\ addressInfo[id].ip \in DOMAIN ipToId
       /\ ipToId[addressInfo[id].ip] = id
  /\ \A ip \in DOMAIN ipToId : addressInfo[ipToId[ip]].ip = ip

\* A number that has been answered is not given again, and while it is in the
\* table it is there with the address and the country answered.
AnswersStand ==
  /\ \A a \in answers :
       /\ a = <<a[1], a[2], a[3]>>
       /\ a[1] \in Nat /\ a[1] < nextId
       /\ a[1] \in DOMAIN addressInfo =>
            /\ addressInfo[a[1]].ip = a[2]
            /\ addressInfo[a[1]].country = a[3]
  /\ \A a, b \in answers : a[1] = b[1] => a = b

GeolocationInv == TablesMatch /\ AnswersStand

\* The invariant is enough for the property.
LEMMA InvIdentifies == GeolocationInv => NumbersIdentify
BY DEF GeolocationInv, TablesMatch, AnswersStand, NumbersIdentify

-----------------------------------------------------------------------------
(* The steps.                                                              *)

\* The tables are empty at first.
LEMMA GeolocationInitInvariant == GeolocationInit => GeolocationInv
BY DEF GeolocationInit, GeolocationInv, TablesMatch, AnswersStand

\* An answer is about what the table has after the step.
LEMMA AnswerStands ==
  ASSUME GeolocationInv, TablesMatch',
         NEW id, NEW ip, NEW country, Answer(id, ip, country),
         id \in DOMAIN addressInfo',
         addressInfo'[id].ip = ip, addressInfo'[id].country = country,
         nextId <= nextId',
         \A i \in DOMAIN addressInfo' :
            \/ i = nextId
            \/ /\ i \in DOMAIN addressInfo
               /\ addressInfo'[i].ip = addressInfo[i].ip
               /\ addressInfo'[i].country = addressInfo[i].country
  PROVE  AnswersStand'
<1>1. id \in Nat /\ id < nextId' /\ nextId \in Nat /\ nextId' \in Nat
  BY DEF TablesMatch, GeolocationInv
<1>2. answers' = answers \cup {<<id, ip, country>>}
  BY DEF Answer
<1>3. \A a \in answers : a[1] = id => a = <<id, ip, country>>
  BY <1>1 DEF GeolocationInv, AnswersStand
<1>4. \A a \in answers :
        /\ a = <<a[1], a[2], a[3]>>
        /\ a[1] \in Nat /\ a[1] < nextId'
        /\ a[1] \in DOMAIN addressInfo' =>
             /\ addressInfo'[a[1]].ip = a[2]
             /\ addressInfo'[a[1]].country = a[3]
  BY <1>1 DEF GeolocationInv, AnswersStand
<1> QED BY <1>1, <1>2, <1>3, <1>4 DEF GeolocationInv, AnswersStand

\* A new address keeps the tables right.
LEMMA InsertInvariant ==
  ASSUME GeolocationInv, NEW ip \in Addresses, Insert(ip)
  PROVE  GeolocationInv'
<1> DEFINE country == IF version = 0 THEN Unknown ELSE CountryOf(version, ip)
           info == [ip |-> ip, version |-> version, country |-> country]
<1>1. /\ ip \notin DOMAIN ipToId /\ nextId' = nextId + 1
      /\ releaseDate' = With(releaseDate, nextId, date + CleanUpDelay)
      /\ ipToId' = With(ipToId, ip, nextId)
      /\ addressInfo' = With(addressInfo, nextId, info)
      /\ Answer(nextId, ip, country) /\ version' = version
  BY DEF Insert
<1>2. info.ip = ip /\ info.country = country /\ info.version = version
  OBVIOUS
<1> HIDE DEF info, country
<1>3. /\ DOMAIN releaseDate' = DOMAIN releaseDate \cup {nextId}
      /\ DOMAIN ipToId' = DOMAIN ipToId \cup {ip} /\ ipToId'[ip] = nextId
      /\ \A i \in DOMAIN ipToId : ipToId'[i] = ipToId[i]
      /\ DOMAIN addressInfo' = DOMAIN addressInfo \cup {nextId}
      /\ addressInfo'[nextId] = info
      /\ \A i \in DOMAIN addressInfo : i # nextId => addressInfo'[i] = addressInfo[i]
  <2>1. DOMAIN releaseDate' = DOMAIN releaseDate \cup {nextId}
    BY <1>1 DEF With
  <2>2. /\ DOMAIN ipToId' = DOMAIN ipToId \cup {ip} /\ ipToId'[ip] = nextId
        /\ \A i \in DOMAIN ipToId : ipToId'[i] = ipToId[i]
    BY <1>1 DEF With
  <2>3. /\ DOMAIN addressInfo' = DOMAIN addressInfo \cup {nextId}
        /\ addressInfo'[nextId] = info
        /\ \A i \in DOMAIN addressInfo : i # nextId => addressInfo'[i] = addressInfo[i]
    BY <1>1 DEF With
  <2> QED BY <2>1, <2>2, <2>3
<1>4. TablesMatch'
  BY <1>1, <1>2, <1>3 DEF GeolocationInv, TablesMatch
<1>5. AnswersStand'
  BY <1>1, <1>2, <1>3, <1>4, AnswerStands DEF GeolocationInv, TablesMatch
<1> QED BY <1>4, <1>5 DEF GeolocationInv

\* So does a known one.
LEMMA HitInvariant ==
  ASSUME GeolocationInv, NEW ip \in Addresses, Hit(ip)
  PROVE  GeolocationInv'
<1>1. TablesMatch'
  BY DEF GeolocationInv, TablesMatch, Hit
<1>2. AnswersStand'
  BY <1>1, AnswerStands DEF GeolocationInv, TablesMatch, Hit
<1> QED BY <1>1, <1>2 DEF GeolocationInv

\* So does an address whose country may have changed.
LEMMA RefreshInvariant ==
  ASSUME GeolocationInv, NEW ip \in Addresses, ip \in DOMAIN ipToId, Refresh(ip),
         version' = version
  PROVE  GeolocationInv'
<1> DEFINE id == ipToId[ip]
           info == [ip |-> ip, version |-> 0, country |-> Unknown]
<1>1. /\ nextId' = nextId + 1
      /\ ipToId' = [ipToId EXCEPT ![ip] = nextId]
      /\ releaseDate' = With(Less(releaseDate, {id}), nextId, date + CleanUpDelay)
      /\ addressInfo' = With(Less(addressInfo, {id}), nextId, info)
      /\ Answer(nextId, ip, Unknown)
  BY DEF Refresh
<1>2. info.ip = ip /\ info.country = Unknown /\ info.version = 0
  OBVIOUS
<1> HIDE DEF info
<1>3. /\ DOMAIN releaseDate' = (DOMAIN releaseDate \ {id}) \cup {nextId}
      /\ DOMAIN addressInfo' = (DOMAIN addressInfo \ {id}) \cup {nextId}
      /\ addressInfo'[nextId] = info
      /\ \A i \in DOMAIN addressInfo \ {id} :
           i # nextId => addressInfo'[i] = addressInfo[i]
  <2>1. /\ DOMAIN Less(releaseDate, {id}) = DOMAIN releaseDate \ {id}
        /\ DOMAIN Less(addressInfo, {id}) = DOMAIN addressInfo \ {id}
        /\ \A i \in DOMAIN addressInfo \ {id} :
             Less(addressInfo, {id})[i] = addressInfo[i]
    BY LessTable
  <2>2. DOMAIN releaseDate' = DOMAIN Less(releaseDate, {id}) \cup {nextId}
    BY <1>1 DEF With
  <2>3. /\ DOMAIN addressInfo' = DOMAIN Less(addressInfo, {id}) \cup {nextId}
        /\ addressInfo'[nextId] = info
        /\ \A i \in DOMAIN Less(addressInfo, {id}) :
             i # nextId => addressInfo'[i] = Less(addressInfo, {id})[i]
    BY <1>1 DEF With
  <2> QED BY <2>1, <2>2, <2>3
<1>4. /\ DOMAIN ipToId' = DOMAIN ipToId /\ ipToId'[ip] = nextId
      /\ \A i \in DOMAIN ipToId \ {ip} : ipToId'[i] = ipToId[i] /\ ipToId[i] # id
  BY <1>1 DEF GeolocationInv, TablesMatch
<1>5. /\ id \in DOMAIN addressInfo /\ nextId \notin DOMAIN addressInfo
      /\ nextId \in Nat /\ version \in Nat /\ DOMAIN ipToId \subseteq Addresses
      /\ DOMAIN addressInfo = DOMAIN releaseDate
      /\ \A i \in DOMAIN addressInfo \ {id} :
           /\ i \in Nat /\ i < nextId
           /\ addressInfo[i].ip \in DOMAIN ipToId \ {ip}
           /\ ipToId[addressInfo[i].ip] = i
      /\ \A i \in DOMAIN ipToId \ {ip} :
           ipToId[i] \in DOMAIN addressInfo \ {id} /\ addressInfo[ipToId[i]].ip = i
  BY DEF GeolocationInv, TablesMatch
<1> HIDE DEF id
<1>6. \A i \in DOMAIN addressInfo' :
        \/ i = nextId /\ addressInfo'[i] = info
        \/ i \in DOMAIN addressInfo \ {id} /\ addressInfo'[i] = addressInfo[i]
  BY <1>3, <1>5
<1>7. TablesMatch'
  <2>1. \A i \in DOMAIN ipToId' :
          /\ ipToId'[i] \in DOMAIN addressInfo'
          /\ addressInfo'[ipToId'[i]].ip = i
    BY <1>2, <1>3, <1>4, <1>5
  <2>2. \A i \in DOMAIN addressInfo' :
          /\ i \in Nat /\ i < nextId'
          /\ addressInfo'[i].ip \in DOMAIN ipToId'
          /\ ipToId'[addressInfo'[i].ip] = i
    <3> TAKE i \in DOMAIN addressInfo'
    <3>1. CASE i = nextId /\ addressInfo'[i] = info
      <4>1. addressInfo'[i].ip = ip
        BY <1>2, <3>1
      <4> QED BY <1>1, <1>4, <1>5, <3>1, <4>1
    <3>2. CASE i \in DOMAIN addressInfo \ {id} /\ addressInfo'[i] = addressInfo[i]
      BY <1>1, <1>4, <1>5, <3>2
    <3> QED BY <1>6, <3>1, <3>2
  <2>3. /\ nextId' \in Nat /\ version' \in Nat
        /\ DOMAIN ipToId' \subseteq Addresses
    BY <1>1, <1>4, <1>5
  <2>4. DOMAIN addressInfo' = DOMAIN releaseDate'
    BY <1>3, <1>5
  <2> QED BY <2>1, <2>2, <2>3, <2>4 DEF TablesMatch
<1>8. AnswersStand'
  <2>1. /\ nextId \in DOMAIN addressInfo' /\ nextId <= nextId'
        /\ addressInfo'[nextId].ip = ip /\ addressInfo'[nextId].country = Unknown
    BY <1>1, <1>2, <1>3, <1>5
  <2>2. \A i \in DOMAIN addressInfo' :
          \/ i = nextId
          \/ /\ i \in DOMAIN addressInfo
             /\ addressInfo'[i].ip = addressInfo[i].ip
             /\ addressInfo'[i].country = addressInfo[i].country
    BY <1>6
  <2> QED BY <1>1, <1>7, <2>1, <2>2, AnswerStands
<1> QED BY <1>7, <1>8 DEF GeolocationInv

\* So does a look-up with a newer database.
LEMMA LookupInvariant ==
  ASSUME GeolocationInv, NEW ip \in Addresses, LookupOutdated(ip)
  PROVE  GeolocationInv'
<1>1. CASE Refresh(ip)
  BY <1>1, RefreshInvariant DEF LookupOutdated
<1>2. CASE /\ addressInfo[ipToId[ip]].country = Unknown
           /\ Answer(ipToId[ip], ip, Unknown)
           /\ UNCHANGED <<ipToId, addressInfo, releaseDate, nextId>>
  <2>1. TablesMatch'
    BY <1>2 DEF GeolocationInv, TablesMatch, LookupOutdated
  <2>2. AnswersStand'
    BY <1>2, <2>1, AnswerStands DEF GeolocationInv, TablesMatch, LookupOutdated
  <2> QED BY <2>1, <2>2 DEF GeolocationInv
<1> QED BY <1>1, <1>2 DEF LookupOutdated

\* So does the clean-up.
LEMMA CleanUpInvariant ==
  ASSUME GeolocationInv, CleanUp
  PROVE  GeolocationInv'
<1> DEFINE released == {id \in DOMAIN releaseDate : releaseDate[id] <= date}
           ips == {addressInfo[id].ip : id \in released}
<1>1. /\ ipToId' = Less(ipToId, ips)
      /\ addressInfo' = Less(addressInfo, released)
      /\ releaseDate' = Less(releaseDate, released)
      /\ UNCHANGED <<version, nextId, answers>>
  BY DEF CleanUp
<1>2. released \subseteq DOMAIN addressInfo
  BY DEF GeolocationInv, TablesMatch
<1>3. \A ip \in DOMAIN ipToId : ip \in ips <=> ipToId[ip] \in released
  BY <1>2 DEF GeolocationInv, TablesMatch
<1> HIDE DEF released, ips
<1>4. /\ DOMAIN ipToId' = DOMAIN ipToId \ ips
      /\ \A ip \in DOMAIN ipToId \ ips : ipToId'[ip] = ipToId[ip]
      /\ DOMAIN addressInfo' = DOMAIN addressInfo \ released
      /\ \A id \in DOMAIN addressInfo \ released : addressInfo'[id] = addressInfo[id]
      /\ DOMAIN releaseDate' = DOMAIN releaseDate \ released
  BY <1>1, LessTable
<1>5. TablesMatch'
  BY <1>1, <1>3, <1>4 DEF GeolocationInv, TablesMatch
<1>6. AnswersStand'
  BY <1>1, <1>4 DEF GeolocationInv, AnswersStand
<1> QED BY <1>5, <1>6 DEF GeolocationInv

\* So does any step.
LEMMA GeolocationNextInvariant ==
  GeolocationInv /\ [GeolocationNext]_geolocationVars => GeolocationInv'
<1> SUFFICES ASSUME GeolocationInv, [GeolocationNext]_geolocationVars
             PROVE  GeolocationInv'
  OBVIOUS
<1>1. CASE UpdateDatabase
  BY <1>1 DEF UpdateDatabase, GeolocationInv, TablesMatch, AnswersStand
<1>2. CASE Wait
  BY <1>2 DEF Wait, GeolocationInv, TablesMatch, AnswersStand
<1>3. CASE UNCHANGED geolocationVars
  BY <1>3 DEF geolocationVars, GeolocationInv, TablesMatch, AnswersStand
<1> QED
  BY <1>1, <1>2, <1>3, InsertInvariant, HitInvariant, LookupInvariant,
     CleanUpInvariant DEF GeolocationNext

-----------------------------------------------------------------------------
(* The theorems.                                                           *)

\* The tables match and what has been answered of a number stands.
THEOREM GeolocationInvariance == GeolocationSpec => []GeolocationInv
<1> QED BY GeolocationInitInvariant, GeolocationNextInvariant, PTL
        DEF GeolocationSpec

\* A number is never given to two addresses nor to two countries, in spite of the
\* clean-ups, the returns and the new databases (geolocation_service::lookup).
THEOREM NumbersAlwaysIdentify == GeolocationSpec => []NumbersIdentify
<1> QED BY InvIdentifies, GeolocationInvariance, PTL

-----------------------------------------------------------------------------
(* Counting the registrations of a queue.                                  *)

Messages == {Hello, Notification}

Places(s) == {i \in DOMAIN s : s[i] = Hello}

One(x) == IF x = Hello THEN 1 ELSE 0

\* The registrations of a queue are finitely many.
LEMMA CountType ==
  ASSUME NEW s \in Seq(Messages)
  PROVE  IsFiniteSet(Places(s)) /\ Count(s) \in Nat
<1>1. Len(s) \in Nat /\ DOMAIN s = 1..Len(s)
  BY LenProperties
<1>2. IsFiniteSet(1..Len(s))
  BY <1>1, FS_Interval
<1>3. Places(s) \in SUBSET (1..Len(s))
  BY <1>1 DEF Places
<1>4. IsFiniteSet(Places(s))
  BY <1>2, <1>3, FS_Subset
<1> QED BY <1>4, FS_CardinalityType DEF Count, Places

\* There is none in an empty queue.
LEMMA CountEmpty == Count(<<>>) = 0
<1>1. Places(<<>>) = {}
  BY EmptySeq DEF Places
<1> QED BY <1>1, FS_EmptySet DEF Count, Places

\* push, and the thread giving a response.
LEMMA CountAppend ==
  ASSUME NEW s \in Seq(Messages), NEW x \in Messages
  PROVE  Count(Append(s, x)) = Count(s) + One(x)
<1> DEFINE t == Append(s, x)
           n == Len(s) + 1
<1>1. /\ Len(s) \in Nat /\ DOMAIN s = 1..Len(s)
      /\ DOMAIN t = 1..n
      /\ \A i \in 1..Len(s) : t[i] = s[i]
      /\ t[n] = x
      /\ n \notin 1..Len(s) /\ 1..n = 1..Len(s) \cup {n}
  BY AppendProperties, LenProperties
<1> HIDE DEF t, n
<1>2. IsFiniteSet(Places(s)) /\ n \notin Places(s) /\ Count(s) \in Nat
  BY <1>1, CountType DEF Places
<1>3. CASE x = Hello
  <2>1. Places(t) = Places(s) \cup {n}
    BY <1>1, <1>3 DEF Places
  <2>2. Cardinality(Places(t)) = Cardinality(Places(s)) + 1
    BY <1>2, <2>1, FS_AddElement
  <2> QED BY <1>3, <2>2 DEF Count, Places, One, t
<1>4. CASE x # Hello
  <2>1. Places(t) = Places(s)
    BY <1>1, <1>4 DEF Places
  <2>2. Count(t) = Count(s)
    BY <2>1 DEF Count, Places
  <2> QED BY <1>2, <1>4, <2>2 DEF One, t
<1> QED BY <1>3, <1>4

\* The thread taking the first request.
LEMMA CountTail ==
  ASSUME NEW s \in Seq(Messages), s # <<>>
  PROVE  /\ Head(s) \in Messages /\ Tail(s) \in Seq(Messages)
         /\ Count(s) = Count(Tail(s)) + One(Head(s))
<1> DEFINE t == Tail(s)
           rest == Places(s) \ {1}
           f == [i \in Places(t) |-> i + 1]
<1>1. /\ Len(s) \in Nat \ {0} /\ DOMAIN s = 1..Len(s)
      /\ Head(s) \in Messages /\ Head(s) = s[1]
      /\ t \in Seq(Messages) /\ Len(t) = Len(s) - 1
      /\ \A i \in 1..Len(t) : t[i] = s[i + 1]
  BY HeadTailProperties, LenProperties, EmptySeq
<1>2. DOMAIN t = 1..Len(s) - 1
  BY <1>1, LenProperties
<1> HIDE DEF t
<1>3. f \in Bijection(Places(t), rest)
  <2>1. ASSUME NEW i \in Places(t)
        PROVE  i \in Int /\ i + 1 \in rest
    BY <1>1, <1>2 DEF Places
  <2>2. ASSUME NEW j \in rest
        PROVE  j \in Int /\ j - 1 \in Places(t)
    BY <1>1, <1>2 DEF Places
  <2>3. f \in [Places(t) -> rest]
    BY <2>1
  <2>4. \A a, b \in Places(t) : f[a] = f[b] => a = b
    BY <2>1
  <2>5. \A j \in rest : \E i \in Places(t) : f[i] = j
    BY <2>2
  <2> HIDE DEF f, rest
  <2> QED BY <2>3, <2>4, <2>5 DEF Bijection, Injection, Surjection, IsInjective
<1>4. IsFiniteSet(Places(t)) /\ IsFiniteSet(Places(s))
      /\ Count(t) \in Nat /\ Count(s) \in Nat
  BY <1>1, CountType
<1>5. ExistsBijection(Places(t), rest)
  BY <1>3 DEF ExistsBijection
<1>6. Cardinality(rest) = Cardinality(Places(t))
  BY <1>4, <1>5, FS_Bijection
<1>7. Cardinality(rest) = IF 1 \in Places(s) THEN Cardinality(Places(s)) - 1
                          ELSE Cardinality(Places(s))
  BY <1>4, FS_RemoveElement
<1>8. 1 \in Places(s) <=> Head(s) = Hello
  BY <1>1 DEF Places
<1>9. Count(t) = Cardinality(Places(t)) /\ Count(s) = Cardinality(Places(s))
  BY DEF Count, Places
<1> HIDE DEF rest
<1> QED BY <1>1, <1>4, <1>6, <1>7, <1>8, <1>9 DEF One, t

\* dispatch: is there the response to a registration?
LEMMA CountContains ==
  ASSUME NEW s \in Seq(Messages)
  PROVE  Contains(s, Hello) <=> Count(s) # 0
<1>1. IsFiniteSet(Places(s)) /\ DOMAIN s = 1..Len(s)
  BY CountType, LenProperties
<1>2. Cardinality(Places(s)) = 0 <=> Places(s) = {}
  BY <1>1, FS_EmptySet
<1>3. Contains(s, Hello) <=> Places(s) # {}
  BY <1>1 DEF Contains, Places
<1> QED BY <1>2, <1>3 DEF Count, Places

-----------------------------------------------------------------------------
(* The inductive invariant.                                                *)

Registrations ==
  Count(requestQueue) + Count(resultQueue) + One(worker)
  + (IF registration = "scheduled" THEN 1 ELSE 0)

OneRegistration == main = "running" => Registrations = 1

NoLostNotification ==
  worker = "asleep" /\ ~signal => requestQueue = <<>> /\ ~quit

HttpInv ==
  /\ requestQueue \in Seq(Messages) /\ resultQueue \in Seq(Messages)
  /\ worker \in {"checking", "asleep", "exited", "failed"} \cup Messages
  /\ signal \in BOOLEAN /\ quit \in BOOLEAN
  /\ registration \in {"scheduled", "requested"}
  /\ OneRegistration
  /\ NoLostNotification

\* The invariant is enough for the property.
LEMMA InvGoesOn == HttpInv => RegistrationGoesOn
BY DEF HttpInv, OneRegistration, NoLostNotification, Registrations, One,
       RegistrationGoesOn

-----------------------------------------------------------------------------
(* The steps.                                                              *)

\* Nothing is asked at first.
LEMMA HttpInitInvariant == HttpInit => HttpInv
<1> SUFFICES ASSUME HttpInit PROVE HttpInv
  OBVIOUS
<1>1. <<>> \in Seq(Messages)
  BY EmptySeq
<1>2. One(worker) = 0 /\ worker # "asleep"
  BY DEF HttpInit, Started, One, Hello
<1>3. OneRegistration
  BY <1>2, CountEmpty DEF HttpInit, OneRegistration, Registrations
<1> QED BY <1>1, <1>2, <1>3 DEF HttpInit, Started, HttpInv, NoLostNotification

\* Every step of the thread.
LEMMA WorkerInvariant ==
  ASSUME HttpInv, FallAsleep \/ TakeRequest \/ Exit \/ ProcessRequest
  PROVE  HttpInv'
<1> USE DEF HttpInv
<1>1. /\ Count(requestQueue) \in Nat /\ Count(resultQueue) \in Nat
  BY CountType
<1>2. CASE FallAsleep
  BY <1>2 DEF FallAsleep, Ready, OneRegistration, Registrations, One, Hello,
              NoLostNotification
<1>3. CASE TakeRequest
  <2>1. requestQueue # <<>> /\ worker = "checking"
    BY <1>3 DEF TakeRequest, Ready
  <2>2. /\ worker' \in Messages /\ requestQueue' \in Seq(Messages)
        /\ Count(requestQueue) = Count(requestQueue') + One(worker')
        /\ UNCHANGED <<resultQueue, quit, signal, registration, main>>
    BY <1>3, <2>1, CountTail DEF TakeRequest
  <2>3. Count(requestQueue') \in Nat /\ One(worker) = 0 /\ One(worker') \in Nat
    BY <2>1, <2>2, CountType DEF One, Hello
  <2>4. OneRegistration'
    BY <1>1, <2>2, <2>3 DEF OneRegistration, Registrations
  <2> QED BY <2>2, <2>4 DEF NoLostNotification, Messages, Hello, Notification
<1>4. CASE Exit
  BY <1>4 DEF Exit, OneRegistration, Registrations, One, Hello,
              NoLostNotification
<1>5. CASE ProcessRequest
  <2>1. /\ worker \in Messages /\ worker' = "checking"
        /\ resultQueue' = Append(resultQueue, worker)
        /\ UNCHANGED <<requestQueue, quit, signal, registration, main>>
    BY <1>5 DEF ProcessRequest, Processing, Messages
  <2>2. /\ Count(resultQueue') = Count(resultQueue) + One(worker)
        /\ resultQueue' \in Seq(Messages)
    BY <2>1, CountAppend, AppendProperties
  <2>3. One(worker') = 0 /\ One(worker) \in Nat
    BY <2>1 DEF One, Hello
  <2>4. OneRegistration'
    BY <1>1, <2>1, <2>2, <2>3 DEF OneRegistration, Registrations
  <2> QED BY <2>1, <2>2, <2>4 DEF NoLostNotification
<1> QED BY <1>2, <1>3, <1>4, <1>5

\* The requests of the main loop.
LEMMA RequestInvariant ==
  ASSUME HttpInv, SendRegistrationRequest \/ SendMatchmakingNotification
  PROVE  HttpInv'
<1> USE DEF HttpInv
<1>1. Count(requestQueue) \in Nat /\ Count(resultQueue) \in Nat
      /\ One(worker) \in Nat
  BY CountType DEF One
<1>2. ASSUME NEW request \in Messages, PushRequest(request)
      PROVE  /\ requestQueue' \in Seq(Messages)
             /\ Count(requestQueue') = Count(requestQueue) + One(request)
             /\ signal'
  BY <1>2, CountAppend, AppendProperties DEF PushRequest
<1>3. CASE SendRegistrationRequest
  <2>1. /\ requestQueue' \in Seq(Messages) /\ signal'
        /\ Count(requestQueue') = Count(requestQueue) + 1
    BY <1>2, <1>3 DEF SendRegistrationRequest, Messages, One
  <2>2. /\ registration = "scheduled" /\ registration' = "requested"
        /\ UNCHANGED <<resultQueue, quit, worker, main>>
    BY <1>3 DEF SendRegistrationRequest
  <2>3. OneRegistration'
    BY <1>1, <2>1, <2>2 DEF OneRegistration, Registrations
  <2>4. signal' = TRUE
    BY <1>3 DEF SendRegistrationRequest, PushRequest
  <2> QED BY <2>1, <2>2, <2>3, <2>4 DEF NoLostNotification
<1>4. CASE SendMatchmakingNotification
  <2>1. /\ requestQueue' \in Seq(Messages) /\ signal'
        /\ Count(requestQueue') = Count(requestQueue)
    BY <1>1, <1>2, <1>4
       DEF SendMatchmakingNotification, Messages, One, Hello, Notification
  <2>2. UNCHANGED <<resultQueue, quit, worker, registration, main>>
    BY <1>4 DEF SendMatchmakingNotification
  <2>3. OneRegistration'
    BY <2>1, <2>2 DEF OneRegistration, Registrations
  <2>4. signal' = TRUE
    BY <1>4 DEF SendMatchmakingNotification, PushRequest
  <2> QED BY <2>1, <2>2, <2>3, <2>4 DEF NoLostNotification
<1> QED BY <1>3, <1>4

\* The other steps of the main loop.
LEMMA MainInvariant ==
  ASSUME HttpInv, Notify \/ Second \/ DispatchResponses \/ Stop \/ Join
  PROVE  HttpInv'
<1> USE DEF HttpInv
<1>1. Count(requestQueue) \in Nat /\ Count(resultQueue) \in Nat
      /\ One(worker) \in Nat /\ <<>> \in Seq(Messages)
  BY CountType, EmptySeq DEF One
<1>2. CASE Notify
  BY <1>2 DEF Notify, OneRegistration, Registrations, One, Hello,
              NoLostNotification
<1>3. CASE Second
  BY <1>3 DEF Second, OneRegistration, Registrations, NoLostNotification
<1>4. CASE DispatchResponses
  <2>1. /\ main = "running" /\ resultQueue' = <<>>
        /\ UNCHANGED <<requestQueue, quit, worker, signal, main>>
        /\ registration' = IF Count(resultQueue) # 0 THEN "scheduled"
                           ELSE registration
    BY <1>4, CountContains DEF DispatchResponses, ScheduleRegistration
  <2>2. Count(resultQueue') = 0
    BY <2>1, CountEmpty
  <2>3. OneRegistration'
    BY <1>1, <2>1, <2>2 DEF OneRegistration, Registrations
  <2> QED BY <1>1, <2>1, <2>3 DEF NoLostNotification
<1>5. CASE Stop
  BY <1>1, <1>5 DEF Stop, OneRegistration, NoLostNotification
<1>6. CASE Join
  BY <1>6 DEF Join, OneRegistration, NoLostNotification
<1> QED BY <1>2, <1>3, <1>4, <1>5, <1>6

\* Any step, of the thread or of the main loop, keeps the invariant.
LEMMA HttpNextInvariant == HttpInv /\ [HttpNext]_httpVars => HttpInv'
<1> SUFFICES ASSUME HttpInv, [HttpNext]_httpVars PROVE HttpInv'
  OBVIOUS
<1>1. CASE UNCHANGED httpVars
  BY <1>1 DEF httpVars, HttpInv, OneRegistration, Registrations,
              NoLostNotification
<1>2. CASE HttpNext
  BY <1>2, WorkerInvariant, RequestInvariant, MainInvariant DEF HttpNext
<1> QED BY <1>1, <1>2

-----------------------------------------------------------------------------
(* The theorems.                                                           *)

\* The queues, the thread and the registration service agree in every state,
\* at any point of the two threads (http_worker, business_registration_service).
THEOREM HttpInvariance == HttpSpec => []HttpInv
<1> QED BY HttpInitInvariant, HttpNextInvariant, PTL DEF HttpSpec

\* A registration is never lost nor doubled, and the notification of a request
\* or of the end of the server is never missed by the thread.
THEOREM RegistrationAlwaysGoesOn == HttpSpec => []RegistrationGoesOn
<1> QED BY InvGoesOn, HttpInvariance, PTL

-----------------------------------------------------------------------------
(* Induction, and the sums over finite sets.                               *)

\* A nonempty set of natural numbers has a least element.
LEMMA LeastNatural ==
  ASSUME NEW S, S \subseteq Nat, S # {}
  PROVE  \E m \in S : \A n \in S : m <= n
<1> DEFINE R == OpToRel(<, Nat)
<1>1. PICK m \in S : \A n \in S : ~(<<n, m>> \in R)
  BY NatLessThanWellFounded, WFMin
<1>2. \A i, j \in Nat : i < j => <<i, j>> \in R
  BY DEF OpToRel
<1> HIDE DEF R
<1>3. \A n \in S : m <= n
  <2> TAKE n \in S
  <2>1. m \in Nat /\ n \in Nat /\ ~(n < m)
    BY <1>1, <1>2
  <2> QED BY <2>1
<1> QED BY <1>3

\* What holds of zero, and of a number when it does of the previous one, holds of
\* all.
LEMMA Induction ==
  ASSUME NEW S, 0 \in S, \A i \in Nat : i \in S => i + 1 \in S
  PROVE  Nat \subseteq S
<1> SUFFICES ASSUME Nat \ S # {}
             PROVE  FALSE
  OBVIOUS
<1>1. PICK m \in Nat \ S : \A i \in Nat \ S : m <= i
  <2>1. Nat \ S \subseteq Nat
    OBVIOUS
  <2> QED BY <2>1, LeastNatural
<1>2. m - 1 \in Nat /\ m = (m - 1) + 1
  BY <1>1
<1>3. m - 1 \in S
  BY <1>1, <1>2
<1> QED BY <1>1, <1>2, <1>3

\* The elements are added in the order of Pick.
Pick(s) == CHOOSE x \in s : TRUE

SumStep(g, f, s) == IF s = {} THEN 0 ELSE f[Pick(s)] + g[s \ {Pick(s)}]

IsSum(g, f, S) ==
  g \in [SUBSET S -> Nat] /\ \A s \in SUBSET S : g[s] = SumStep(g, f, s)

\* Without the element picked, a finite set has one element less.
LEMMA PickIsFewer ==
  ASSUME NEW S, IsFiniteSet(S), NEW s \in SUBSET S, s # {}
  PROVE  /\ Pick(s) \in s /\ s \ {Pick(s)} \in SUBSET S
         /\ Cardinality(s) \in Nat /\ Cardinality(s \ {Pick(s)}) \in Nat
         /\ Cardinality(s) = Cardinality(s \ {Pick(s)}) + 1
<1>1. Pick(s) \in s
  BY DEF Pick
<1>2. IsFiniteSet(s)
  BY FS_Subset
<1>3. /\ IsFiniteSet(s \ {Pick(s)})
      /\ Cardinality(s \ {Pick(s)}) = Cardinality(s) - 1
  BY <1>1, <1>2, FS_RemoveElement
<1>4. Cardinality(s) \in Nat /\ Cardinality(s \ {Pick(s)}) \in Nat
  BY <1>2, <1>3, FS_CardinalityType
<1> QED BY <1>1, <1>3, <1>4

\* The sums of the subsets of a finite set are defined.
LEMMA SumExists ==
  ASSUME NEW S, IsFiniteSet(S), NEW f \in [S -> Nat]
  PROVE  \E g : IsSum(g, f, S)
<1> DEFINE
     Upto(k) == \E g \in [SUBSET S -> Nat] :
                  \A s \in SUBSET S :
                    Cardinality(s) <= k => g[s] = SumStep(g, f, s)
     Done == {k \in Nat : Upto(k)}
<1>1. 0 \in Done
  <2> DEFINE g == [s \in SUBSET S |-> 0]
  <2>1. ASSUME NEW s \in SUBSET S, Cardinality(s) <= 0
        PROVE  s = {}
    <3>1. IsFiniteSet(s)
      BY FS_Subset
    <3>2. Cardinality(s) \in Nat
      BY <3>1, FS_CardinalityType
    <3>3. Cardinality(s) = 0
      BY <2>1, <3>2
    <3> QED BY <3>1, <3>3, FS_EmptySet
  <2>2. \A s \in SUBSET S : Cardinality(s) <= 0 => g[s] = SumStep(g, f, s)
    BY <2>1 DEF SumStep
  <2>3. g \in [SUBSET S -> Nat]
    OBVIOUS
  <2> HIDE DEF g
  <2>4. Upto(0)
    BY <2>2, <2>3
  <2> QED BY <2>4
<1>2. ASSUME NEW k \in Nat, k \in Done
      PROVE  k + 1 \in Done
  <2>1. PICK g \in [SUBSET S -> Nat] :
          \A s \in SUBSET S :
            Cardinality(s) <= k => g[s] = SumStep(g, f, s)
    BY <1>2
  <2> DEFINE h == [s \in SUBSET S |-> IF Cardinality(s) <= k THEN g[s]
                                      ELSE SumStep(g, f, s)]
  <2>2. \A s \in SUBSET S : SumStep(g, f, s) \in Nat
    <3> TAKE s \in SUBSET S
    <3>1. CASE s = {}
      BY <3>1 DEF SumStep
    <3>2. CASE s # {}
      <4>1. Pick(s) \in s /\ s \ {Pick(s)} \in SUBSET S
        BY <3>2, PickIsFewer
      <4>2. f[Pick(s)] \in Nat /\ g[s \ {Pick(s)}] \in Nat
        BY <2>1, <4>1
      <4> QED BY <3>2, <4>2 DEF SumStep
    <3> QED BY <3>1, <3>2
  <2>3. h \in [SUBSET S -> Nat]
    BY <2>1, <2>2
  <2>4. ASSUME NEW s \in SUBSET S, Cardinality(s) <= k + 1
        PROVE  h[s] = SumStep(h, f, s)
    <3>1. CASE s = {}
      <4>1. Cardinality(s) <= k
        BY <3>1, FS_EmptySet
      <4>2. h[s] = g[s] /\ g[s] = SumStep(g, f, s)
        BY <2>1, <4>1
      <4> QED BY <3>1, <4>2 DEF SumStep
    <3>2. CASE s # {}
      <4> DEFINE r == s \ {Pick(s)}
      <4>1. /\ Pick(s) \in s /\ r \in SUBSET S
            /\ Cardinality(s) \in Nat /\ Cardinality(r) \in Nat
            /\ Cardinality(s) = Cardinality(r) + 1
        BY <3>2, PickIsFewer
      <4>2. Cardinality(r) <= k
        BY <2>4, <4>1
      <4>3. h[r] = g[r]
        BY <4>1, <4>2
      <4>4. h[s] = SumStep(g, f, s)
        BY <2>1
      <4> QED BY <3>2, <4>3, <4>4 DEF SumStep
    <3> QED BY <3>1, <3>2
  <2> HIDE DEF h
  <2>5. Upto(k + 1) /\ k + 1 \in Nat
    BY <2>3, <2>4
  <2> HIDE DEF Upto
  <2> QED BY <2>5
<1> HIDE DEF Done
<1>3. Cardinality(S) \in Nat
  BY FS_CardinalityType
<1>4. Cardinality(S) \in Done
  BY <1>1, <1>2, <1>3, Induction
<1>5. PICK g \in [SUBSET S -> Nat] :
        \A s \in SUBSET S :
          Cardinality(s) <= Cardinality(S) => g[s] = SumStep(g, f, s)
  BY <1>4 DEF Done
<1>6. \A s \in SUBSET S : Cardinality(s) <= Cardinality(S)
  BY FS_Subset
<1>7. IsSum(g, f, S)
  BY <1>5, <1>6 DEF IsSum
<1> QED BY <1>7

\* What adds the elements of the subsets of S adds those of the subsets of a part.
LEMMA SumIsUnique ==
  ASSUME NEW D, IsFiniteSet(D), NEW f, NEW g, IsSum(g, f, D),
         NEW S \in SUBSET D, NEW h,
         \A s \in SUBSET S : h[s] = SumStep(h, f, s)
  PROVE  h[S] = g[S]
<1> DEFINE Same == {k \in Nat : \A s \in SUBSET S :
                                  Cardinality(s) = k => h[s] = g[s]}
<1>1. IsFiniteSet(S) /\ Cardinality(S) \in Nat
  BY FS_Subset, FS_CardinalityType
<1>2. 0 \in Same
  <2> SUFFICES ASSUME NEW s \in SUBSET S, Cardinality(s) = 0
               PROVE  h[s] = g[s]
    OBVIOUS
  <2>1. IsFiniteSet(s)
    BY <1>1, FS_Subset
  <2>2. s = {}
    BY <2>1, FS_EmptySet
  <2> QED BY <2>2 DEF IsSum, SumStep
<1>3. ASSUME NEW k \in Nat, k \in Same
      PROVE  k + 1 \in Same
  <2> SUFFICES ASSUME NEW s \in SUBSET S, Cardinality(s) = k + 1
               PROVE  h[s] = g[s]
    OBVIOUS
  <2>1. s # {}
    BY FS_EmptySet
  <2>2. /\ s \ {Pick(s)} \in SUBSET S
        /\ Cardinality(s \ {Pick(s)}) = k
    BY <1>1, <2>1, PickIsFewer
  <2>3. h[s \ {Pick(s)}] = g[s \ {Pick(s)}]
    BY <1>3, <2>2
  <2>4. h[s] = SumStep(h, f, s) /\ g[s] = SumStep(g, f, s)
    BY DEF IsSum
  <2> QED BY <2>1, <2>3, <2>4 DEF SumStep
<1> HIDE DEF Same
<1>4. Cardinality(S) \in Same
  BY <1>1, <1>2, <1>3, Induction
<1> QED BY <1>4 DEF Same

\* SumOver is this sum.
LEMMA SumOverIsSum ==
  ASSUME NEW D, IsFiniteSet(D), NEW f \in [D -> Nat], NEW g, IsSum(g, f, D),
         NEW S \in SUBSET D
  PROVE  SumOver(S, f) = g[S]
<1> DEFINE Adds(h) == h = [s \in SUBSET S |-> SumStep(h, f, s)]
           iter == CHOOSE h : Adds(h)
<1>1. SumOver(S, f) = iter[S]
  BY DEF SumOver, FoldSet, MapThenFoldSet, SumStep, Pick
<1>2. \E h : Adds(h)
  <2> DEFINE h == [s \in SUBSET S |-> g[s]]
  <2>1. ASSUME NEW s \in SUBSET S
        PROVE  h[s] = SumStep(h, f, s)
    <3>1. h[s] = g[s] /\ g[s] = SumStep(g, f, s)
      BY DEF IsSum
    <3>2. s # {} => h[s \ {Pick(s)}] = g[s \ {Pick(s)}]
      OBVIOUS
    <3> QED BY <3>1, <3>2 DEF SumStep
  <2> DEFINE Value(s) == SumStep(h, f, s)
  <2>2. h = [s \in SUBSET S |-> h[s]]
    OBVIOUS
  <2> HIDE DEF h
  <2>3. \A s \in SUBSET S : h[s] = Value(s)
    BY <2>1
  <2> HIDE DEF Value
  <2>4. h = [s \in SUBSET S |-> Value(s)]
    BY <2>2, <2>3
  <2>5. Adds(h)
    BY <2>4 DEF Value
  <2> QED BY <2>5
<1> HIDE DEF Adds
<1>3. Adds(iter)
  BY <1>2
<1> HIDE DEF iter
<1>4. \A s \in SUBSET S : iter[s] = SumStep(iter, f, s)
  BY <1>3 DEF Adds
<1>5. iter[S] = g[S]
  BY <1>4, SumIsUnique
<1> QED BY <1>1, <1>5

\* One more element adds what it is worth.
LEMMA SumAdds ==
  ASSUME NEW D, IsFiniteSet(D), NEW f \in [D -> Nat], NEW g, IsSum(g, f, D),
         NEW x \in D, NEW S \in SUBSET (D \ {x})
  PROVE  g[S \cup {x}] = f[x] + g[S]
<1> DEFINE Adding == {k \in Nat : \A y \in D : \A s \in SUBSET (D \ {y}) :
                                    Cardinality(s) = k => g[s \cup {y}] = f[y] + g[s]}
<1>1. \A y \in D : \A s \in SUBSET (D \ {y}) :
        s \in SUBSET D /\ s \cup {y} \in SUBSET D /\ IsFiniteSet(s)
        /\ Cardinality(s) \in Nat
  BY FS_Subset, FS_CardinalityType
<1>2. \A s \in SUBSET D : g[s] \in Nat /\ g[s] = SumStep(g, f, s)
  BY DEF IsSum
<1>3. 0 \in Adding
  <2> SUFFICES ASSUME NEW y \in D, NEW s \in SUBSET (D \ {y}), Cardinality(s) = 0
               PROVE  g[s \cup {y}] = f[y] + g[s]
    OBVIOUS
  <2>1. s = {}
    BY <1>1, FS_EmptySet
  <2>2. s \cup {y} = {y} /\ Pick({y}) = y /\ {y} \ {y} = {} /\ {y} # {}
    BY <2>1 DEF Pick
  <2>3. g[{y}] = SumStep(g, f, {y}) /\ g[{}] = 0 /\ g[{}] \in Nat
    BY <1>2 DEF SumStep
  <2>4. SumStep(g, f, {y}) = f[y] + g[{}]
    BY <2>2 DEF SumStep
  <2> QED BY <2>1, <2>2, <2>3, <2>4
<1>4. ASSUME NEW k \in Nat, k \in Adding
      PROVE  k + 1 \in Adding
  <2> SUFFICES ASSUME NEW y \in D, NEW s \in SUBSET (D \ {y}), Cardinality(s) = k + 1
               PROVE  g[s \cup {y}] = f[y] + g[s]
    OBVIOUS
  <2>0. ASSUME NEW w \in s
        PROVE  Cardinality(s \ {w}) = k
    <3>1. IsFiniteSet(s)
      BY <1>1
    <3>2. Cardinality(s \ {w}) = Cardinality(s) - 1
      BY <3>1, FS_RemoveElement
    <3> QED BY <3>2
  <2> DEFINE t == s \cup {y}
             z == Pick(t)
             r == s \ {z}
  <2>1. t \in SUBSET D /\ t # {} /\ z \in t /\ f[y] \in Nat /\ s \in SUBSET D
    BY <1>1 DEF Pick
  <2>2. g[t] = f[z] + g[t \ {z}]
    BY <1>2, <2>1 DEF SumStep
  <2>3. CASE z = y
    <3>1. t \ {z} = s
      BY <2>3
    <3> QED BY <2>2, <2>3, <3>1
  <2>4. CASE z # y
    <3>1. z \in s /\ t \ {z} = r \cup {y} /\ s = r \cup {z} /\ z \in D
      BY <2>1, <2>4
    <3>2. Cardinality(r) = k
      BY <2>0, <3>1
    <3>3. r \in SUBSET (D \ {y}) /\ r \in SUBSET (D \ {z}) /\ r \in SUBSET D
      BY <2>1
    <3> HIDE DEF t, z, r
    <3>4. g[r \cup {y}] = f[y] + g[r]
      BY <1>4, <3>2, <3>3
    <3>5. g[r \cup {z}] = f[z] + g[r]
      BY <1>4, <3>1, <3>2, <3>3
    <3>6. f[z] \in Nat /\ g[r] \in Nat
      BY <1>2, <3>1, <3>3
    <3>7. g[t] = f[z] + (f[y] + g[r]) /\ g[s] = f[z] + g[r]
      BY <2>2, <3>1, <3>4, <3>5
    <3>8. g[t] = f[y] + g[s]
      BY <2>1, <3>6, <3>7
    <3> QED BY <3>8 DEF t
  <2> QED BY <2>3, <2>4
<1> HIDE DEF Adding
<1>5. Cardinality(S) \in Adding
  BY <1>1, <1>3, <1>4, Induction
<1> QED BY <1>5 DEF Adding

\* What the model and the code count: a sum is natural, and one more element adds
\* what it is worth.
LEMMA SumOverAdds ==
  ASSUME NEW D, IsFiniteSet(D), NEW f \in [D -> Nat], NEW S \in SUBSET D
  PROVE  /\ SumOver(S, f) \in Nat
         /\ \A x \in D \ S : SumOver(S \cup {x}, f) = f[x] + SumOver(S, f)
<1>1. PICK g : IsSum(g, f, D)
  BY SumExists
<1>2. SumOver(S, f) = g[S] /\ g[S] \in Nat
  BY <1>1, SumOverIsSum DEF IsSum
<1>3. ASSUME NEW x \in D \ S
      PROVE  SumOver(S \cup {x}, f) = f[x] + SumOver(S, f)
  <2>1. S \in SUBSET (D \ {x}) /\ S \cup {x} \in SUBSET D
    OBVIOUS
  <2>2. SumOver(S \cup {x}, f) = g[S \cup {x}]
    BY <1>1, <2>1, SumOverIsSum
  <2> QED BY <1>1, <1>2, <2>1, <2>2, SumAdds
<1> QED BY <1>2, <1>3


-----------------------------------------------------------------------------
(* The inductive invariant.                                                *)

\* The fields of an account but the coins, and what is put in the slots.
WellFormed(a) ==
  a \in [coins : {a.coins}, features : SUBSET Features, open : SUBSET Slots,
         content : [Slots -> Features \cup {NoFeature}],
         credited : SUBSET Purchases, earned : {a.earned}]

OwnedSlots(a) ==
  \A s \in Slots :
    a.content[s] # NoFeature => a.content[s] \in a.features /\ s \in a.open

\* What the screen is about to put in a slot is owned, although the mode was
\* chosen by an earlier touch.
SelectionIsOwned ==
  /\ screen \in {"other", "features", "shop"}
  /\ mode \in {"idle", "erase", "assign"}
  /\ selected \in Features \cup {NoFeature}
  /\ mode = "assign" => selected \in account.features

\* The store is only asked to forget what has been credited, or what was and
\* has been lost since then.
ConsumedIsCredited ==
  /\ store \in [Purchases -> {"none", "paid", "acknowledged", "consumed"}]
  /\ acknowledgements \subseteq Purchases /\ consumptions \subseteq Purchases
  /\ consumptions \subseteq account.credited \cup lost
  /\ PurchasesAreCredited

AccountInv ==
  /\ WellFormed(account) /\ WellFormed(saved)
  /\ OwnedSlots(account) /\ OwnedSlots(saved)
  /\ SelectionIsOwned
  /\ ConsumedIsCredited

-----------------------------------------------------------------------------
(* The accounts.                                                           *)

\* The preferences of a former version become an account whose slot is owned.
LEMMA UpdatedIsOwned ==
  ASSUME NEW p \in OldPreferences
  PROVE  WellFormed(Updated(p)) /\ OwnedSlots(Updated(p))
<1>1. p.features \subseteq Features /\ p.enabled \subseteq p.features
  BY OldFeaturesAreOwned
<1>2. 1 \in Slots
  BY AccountConstants DEF Slots
<1>3. ASSUME p.enabled # {}
      PROVE  (CHOOSE f \in p.enabled : \A g \in p.enabled : f <= g)
               \in p.enabled
  <2>1. p.enabled \subseteq Nat
    BY <1>1, AccountConstants DEF Features
  <2> QED BY <1>3, <2>1, LeastNatural
<1>4. SlotsOfVersion1(p) \in [Slots -> p.features \cup {NoFeature}]
  BY <1>1, <1>3 DEF SlotsOfVersion1
<1>5. \A s \in Slots : SlotsOfVersion1(p)[s] # NoFeature => s = 1
  BY DEF SlotsOfVersion1
<1> DEFINE coins == IF p.version = 0 THEN CoinsOfVersion0(p) ELSE p.coins
           a == [coins |-> coins, features |-> p.features, open |-> {1},
                 content |-> SlotsOfVersion1(p), credited |-> {}, earned |-> 0]
<1>6. Updated(p) = [a EXCEPT !.earned = a.coins + Spent(a)]
  BY DEF Updated
<1> HIDE DEF coins
<1>7. PICK n : Updated(p) = [a EXCEPT !.earned = n]
  BY <1>6
<1> QED BY <1>1, <1>2, <1>4, <1>5, <1>7 DEF WellFormed, OwnedSlots

\* What the game does to an account leaves it well formed, and adds what the
\* slots have.
LEMMA ReceivedIsOwned ==
  ASSUME NEW a, WellFormed(a), OwnedSlots(a), NEW n
  PROVE  /\ WellFormed(Received(a, n)) /\ OwnedSlots(Received(a, n))
         /\ Received(a, n).features = a.features
         /\ Received(a, n).credited = a.credited
BY DEF WellFormed, OwnedSlots, Received

\* A slot that is bought is owned.
LEMMA WithSlotIsOwned ==
  ASSUME WellFormed(account), OwnedSlots(account), NEW s \in Slots
  PROVE  /\ WellFormed(WithSlot(s)) /\ OwnedSlots(WithSlot(s))
         /\ WithSlot(s).features = account.features
         /\ WithSlot(s).credited = account.credited
BY DEF WellFormed, OwnedSlots, WithSlot

\* An owned feature may be put in a slot.
LEMMA AssignedIsOwned ==
  ASSUME NEW a, WellFormed(a), OwnedSlots(a), NEW s \in Slots,
         NEW f \in a.features
  PROVE  /\ WellFormed(Assigned(a, s, f)) /\ OwnedSlots(Assigned(a, s, f))
         /\ Assigned(a, s, f).features = a.features
         /\ Assigned(a, s, f).credited = a.credited
<1>1. ASSUME s \in a.open
      PROVE  /\ Assigned(a, s, f) = [a EXCEPT !.content[s] = f]
             /\ [a.content EXCEPT ![s] = f] \in [Slots -> Features \cup {NoFeature}]
  BY <1>1 DEF Assigned, WellFormed
<1>2. CASE s \in a.open
  BY <1>1, <1>2 DEF WellFormed, OwnedSlots
<1>3. CASE s \notin a.open
  BY <1>3 DEF Assigned
<1> QED BY <1>2, <1>3

\* A feature that is bought is owned.
LEMMA WithFeatureIsOwned ==
  ASSUME WellFormed(account), OwnedSlots(account), NEW f \in Features
  PROVE  /\ WellFormed(WithFeature(f)) /\ OwnedSlots(WithFeature(f))
         /\ account.features \subseteq WithFeature(f).features
         /\ WithFeature(f).credited = account.credited
BY DEF WellFormed, OwnedSlots, WithFeature

\* A completed purchase takes nothing away.
LEMMA CompletedIsOwned ==
  ASSUME AccountInv, NEW T \in SUBSET Purchases, Completed(T)
  PROVE  /\ WellFormed(account)' /\ OwnedSlots(account)'
         /\ account'.features = account.features
         /\ account.credited \subseteq account'.credited
         /\ consumptions \subseteq consumptions'
         /\ consumptions' \subseteq Purchases
         /\ consumptions' \subseteq account'.credited \cup lost
<1>1. CASE products = "ready"
  <2> DEFINE r == Received(account, Worth * Cardinality(T))
  <2>1. /\ WellFormed(r) /\ OwnedSlots(r)
        /\ r.features = account.features /\ r.credited = account.credited
    BY ReceivedIsOwned DEF AccountInv
  <2>2. /\ account' = [r EXCEPT !.credited = r.credited \cup T]
        /\ consumptions' = consumptions \cup T
    BY <1>1 DEF Completed
  <2> HIDE DEF r
  <2> QED BY <2>1, <2>2 DEF WellFormed, OwnedSlots, AccountInv, ConsumedIsCredited
<1>2. CASE products # "ready"
  BY <1>2 DEF Completed, AccountInv, ConsumedIsCredited
<1> QED BY <1>1, <1>2

-----------------------------------------------------------------------------
(* The steps.                                                              *)

\* The account read from the preferences is right.
LEMMA AccountInitInvariant == AccountInit => AccountInv
BY UpdatedIsOwned
   DEF AccountInit, AccountInv, SelectionIsOwned, ConsumedIsCredited,
       PurchasesAreCredited

\* What the screen of the features does changes neither the purchases nor what
\* was credited.
LEMMA EditInvariant ==
  ASSUME AccountInv, NEW a, Edit(a), WellFormed(a), OwnedSlots(a),
         a.credited = account.credited,
         mode' \in {"idle", "erase", "assign"},
         selected' \in Features \cup {NoFeature},
         mode' = "assign" => selected' \in a.features
  PROVE  AccountInv'
BY DEF AccountInv, Edit, SelectionIsOwned, ConsumedIsCredited,
       PurchasesAreCredited, shopVars

\* The choice of the features keeps it right.
LEMMA FeaturesInvariant ==
  ASSUME AccountInv,
         \/ StartEraseMode \/ SelectRandomFeatures \/ Cancel
         \/ \E s \in Slots : SelectSlot(s)
         \/ \E f \in Features : SelectFeature(f)
  PROVE  AccountInv'
<1> USE DEF AccountInv
<1>0. selected \in Features \cup {NoFeature}
  BY DEF SelectionIsOwned
<1>1. CASE StartEraseMode
  BY <1>0, <1>1, EditInvariant DEF StartEraseMode, Idle
<1>2. CASE SelectRandomFeatures
  <2>1. PICK content \in [Slots -> Features \cup {NoFeature}] :
          /\ \A s \in Slots \ account.open : content[s] = account.content[s]
          /\ \A s \in {t \in account.open : content[t] # NoFeature} :
               content[s] \in account.features
          /\ Edit([account EXCEPT !.content = content])
          /\ Idle
    BY <1>2, Zenon DEF SelectRandomFeatures
  <2> DEFINE a == [account EXCEPT !.content = content]
  <2>2. WellFormed(a) /\ OwnedSlots(a) /\ a.credited = account.credited
    BY <2>1 DEF WellFormed, OwnedSlots
  <2> QED BY <2>1, <2>2, EditInvariant DEF Idle
<1>3. CASE Cancel
  BY <1>3, EditInvariant DEF Cancel, Idle
<1>4. ASSUME NEW s \in Slots, PurchaseSlot(s)
      PROVE  AccountInv'
  <2>1. /\ WellFormed(WithSlot(s)) /\ OwnedSlots(WithSlot(s))
        /\ WithSlot(s).credited = account.credited
    BY WithSlotIsOwned
  <2>2. /\ mode' = "idle" /\ selected' \in Features \cup {NoFeature}
        /\ Edit(WithSlot(s))
    BY <1>0, <1>4 DEF PurchaseSlot
  <2> QED BY <2>1, <2>2, EditInvariant
<1>5. ASSUME NEW s \in Slots, EraseSlot(s)
      PROVE  AccountInv'
  <2> DEFINE a == IF s \in account.open
                  THEN [account EXCEPT !.content[s] = NoFeature]
                  ELSE account
  <2>1. WellFormed(a) /\ OwnedSlots(a) /\ a.credited = account.credited
    <3>1. [account.content EXCEPT ![s] = NoFeature]
            \in [Slots -> Features \cup {NoFeature}]
      BY DEF WellFormed
    <3> QED BY <3>1 DEF WellFormed, OwnedSlots
  <2> QED BY <1>5, <2>1, EditInvariant DEF EraseSlot, Idle
<1>6. ASSUME NEW s \in Slots, AssignSlot(s)
      PROVE  AccountInv'
  <2>1. selected \in WithSlot(s).features
    BY <1>6, WithSlotIsOwned DEF AssignSlot, SelectionIsOwned
  <2> DEFINE a == Assigned(WithSlot(s), s, selected)
  <2>2. WellFormed(a) /\ OwnedSlots(a) /\ a.credited = account.credited
    BY <2>1, WithSlotIsOwned, AssignedIsOwned
  <2> QED BY <1>6, <2>2, EditInvariant DEF AssignSlot, Idle
<1>7. ASSUME NEW f \in Features, SelectFeature(f)
      PROVE  AccountInv'
  <2>1. CASE Edit(account) /\ Idle
    BY <2>1, EditInvariant DEF Idle
  <2>2. CASE /\ Edit(WithFeature(f))
             /\ IF f \in account'.features
                THEN mode' = "assign" /\ selected' = f
                ELSE Idle
    BY <2>2, WithFeatureIsOwned, EditInvariant DEF Edit, Idle
  <2> QED BY <1>7, <2>1, <2>2 DEF SelectFeature
<1> QED BY <1>1, <1>2, <1>3, <1>4, <1>5, <1>6, <1>7 DEF SelectSlot

\* The answers of the store: what is consumed was credited before.
LEMMA StoreInvariant ==
  ASSUME AccountInv,
         \/ ProductsAnswer \/ QueryAnswer
         \/ \E t \in Purchases : Purchase(t) \/ Acknowledged(t) \/ Consumed(t)
  PROVE  AccountInv'
<1> USE DEF AccountInv, SelectionIsOwned, ConsumedIsCredited,
            PurchasesAreCredited
<1>1. CASE ProductsAnswer
  BY <1>1 DEF ProductsAnswer, ShopStep
<1>2. CASE QueryAnswer
  <2> DEFINE in(state) == {t \in Purchases : store[t] = state}
  <2>1. CASE /\ Completed(in("acknowledged"))
             /\ acknowledgements' = acknowledgements \cup in("paid")
    <3>1. in("acknowledged") \in SUBSET Purchases
      OBVIOUS
    <3>2. /\ WellFormed(account)' /\ OwnedSlots(account)'
          /\ account'.features = account.features
          /\ account.credited \subseteq account'.credited
          /\ consumptions' \subseteq Purchases
          /\ consumptions' \subseteq account'.credited \cup lost
      BY <2>1, <3>1, CompletedIsOwned
    <3> QED BY <1>2, <2>1, <3>2 DEF QueryAnswer, ShopStep
  <2>2. CASE UNCHANGED <<account, consumptions, acknowledgements>>
    BY <1>2, <2>2 DEF QueryAnswer, ShopStep
  <2> QED BY <1>2, <2>1, <2>2 DEF QueryAnswer
<1>3. ASSUME NEW t \in Purchases, Purchase(t)
      PROVE  AccountInv'
  BY <1>3 DEF Purchase, ShopStep
<1>4. ASSUME NEW t \in Purchases, Acknowledged(t)
      PROVE  AccountInv'
  <2>1. CASE /\ store' = [store EXCEPT ![t] = IF @ = "paid" THEN "acknowledged"
                                               ELSE @]
             /\ Completed({t})
    <3>1. /\ WellFormed(account)' /\ OwnedSlots(account)'
          /\ account'.features = account.features
          /\ account.credited \subseteq account'.credited
          /\ consumptions' \subseteq Purchases
          /\ consumptions' \subseteq account'.credited \cup lost
      BY <2>1, CompletedIsOwned
    <3> QED BY <1>4, <2>1, <3>1 DEF Acknowledged, ShopStep
  <2>2. CASE UNCHANGED <<store, account, consumptions>>
    BY <1>4, <2>2 DEF Acknowledged, ShopStep
  <2> QED BY <1>4, <2>1, <2>2 DEF Acknowledged
<1>5. ASSUME NEW t \in Purchases, Consumed(t)
      PROVE  AccountInv'
  BY <1>5 DEF Consumed, ShopStep
<1> QED BY <1>1, <1>2, <1>3, <1>4, <1>5

\* So does any step.
LEMMA AccountNextInvariant ==
  AccountInv /\ [AccountNext]_accountVars => AccountInv'
<1> SUFFICES ASSUME AccountInv, [AccountNext]_accountVars
             PROVE  AccountInv'
  OBVIOUS
<1> USE DEF AccountInv, SelectionIsOwned, ConsumedIsCredited,
            PurchasesAreCredited
<1>1. CASE Flush
  BY <1>1 DEF Flush, shopVars
<1>2. CASE Crash
  BY <1>2 DEF Crash, Restarted, WellFormed
<1>3. CASE Quit
  BY <1>3 DEF Quit, Restarted
<1>4. ASSUME NEW s \in {"other", "features", "shop"}, Display(s)
      PROVE  AccountInv'
  BY <1>4 DEF Display, Idle
<1>5. CASE GameOver
  <2>1. PICK r : account' = Received(account, r)
    BY <1>5 DEF GameOver
  <2> QED BY <1>5, <2>1, ReceivedIsOwned DEF GameOver, shopVars
<1>6. CASE UNCHANGED accountVars
  BY <1>6 DEF accountVars, shopVars
<1> QED
  BY <1>1, <1>2, <1>3, <1>4, <1>5, <1>6, FeaturesInvariant, StoreInvariant
     DEF AccountNext

-----------------------------------------------------------------------------
(* The coins.                                                              *)

Balanced(a) ==
  a.coins \in Nat /\ a.earned \in Nat /\ a.coins + Spent(a) = a.earned

CoinsInv == AccountInv /\ Balanced(account) /\ Balanced(saved)

\* What does not change the balance.
Paid(a) == <<a.coins, a.features, a.open, a.earned>>

\* The balance only depends on what is paid and received.
LEMMA PaidIsBalanced ==
  ASSUME NEW a, NEW b, Balanced(a), Paid(b) = Paid(a)
  PROVE  Balanced(b)
BY DEF Balanced, Paid, Spent

\* The shop is finite.
LEMMA FiniteData ==
  /\ IsFiniteSet(Features) /\ IsFiniteSet(Slots)
  /\ Price \in [Features -> Nat] /\ SlotPrice \in [Slots -> Nat]
<1>1. FeatureCount \in Int /\ SlotCount \in Int /\ 1 \in Int
  BY AccountConstants
<1>2. IsFiniteSet(1..FeatureCount) /\ IsFiniteSet(1..SlotCount)
  BY <1>1, FS_Interval
<1> QED BY <1>2, AccountConstants DEF Features, Slots

\* The product of two natural numbers is one.
LEMMA ProductIsNatural == \A m, n \in Nat : m * n \in Nat
OBVIOUS

\* A feature or a slot costs its price, once.
LEMMA SpentAdds ==
  ASSUME NEW a, a.features \subseteq Features, a.open \subseteq Slots
  PROVE  /\ Spent(a) \in Nat
         /\ \A f \in Features \ a.features :
              \A b : b.features = a.features \cup {f} /\ b.open = a.open
                     => Spent(b) = Price[f] + Spent(a)
         /\ \A s \in Slots \ a.open :
              \A b : b.features = a.features /\ b.open = a.open \cup {s}
                     => Spent(b) = SlotPrice[s] + Spent(a)
<1> DEFINE F(S) == SumOver(S, Price)
           O(S) == SumOver(S, SlotPrice)
<1>1. /\ F(a.features) \in Nat
      /\ \A f \in Features \ a.features :
           F(a.features \cup {f}) = Price[f] + F(a.features)
  BY FiniteData, SumOverAdds
<1>2. /\ O(a.open) \in Nat
      /\ \A s \in Slots \ a.open :
           O(a.open \cup {s}) = SlotPrice[s] + O(a.open)
  BY FiniteData, SumOverAdds
<1>3. /\ \A f \in Features : Price[f] \in Nat
      /\ \A s \in Slots : SlotPrice[s] \in Nat
  BY FiniteData
<1>4. \A b : Spent(b) = F(b.features) + O(b.open)
  BY DEF Spent
<1> HIDE DEF F, O
<1>5. ASSUME NEW f \in Features \ a.features, NEW b,
             b.features = a.features \cup {f}, b.open = a.open
      PROVE  Spent(b) = Price[f] + Spent(a)
  <2>1. Spent(b) = (Price[f] + F(a.features)) + O(a.open)
    BY <1>1, <1>4, <1>5
  <2> QED BY <1>1, <1>2, <1>3, <1>4, <2>1
<1>6. ASSUME NEW s \in Slots \ a.open, NEW b,
             b.features = a.features, b.open = a.open \cup {s}
      PROVE  Spent(b) = SlotPrice[s] + Spent(a)
  <2>1. Spent(b) = F(a.features) + (SlotPrice[s] + O(a.open))
    BY <1>2, <1>4, <1>6
  <2> QED BY <1>1, <1>2, <1>3, <1>4, <2>1
<1>7. Spent(a) \in Nat
  BY <1>1, <1>2, <1>4
<1> QED BY <1>5, <1>6, <1>7

\* Whatever was won with the former versions, and lost in the conversion, the
\* player starts with what it owns.
LEMMA UpdatedIsBalanced ==
  ASSUME NEW p \in OldPreferences
  PROVE  Balanced(Updated(p))
<1> DEFINE coins == IF p.version = 0 THEN CoinsOfVersion0(p) ELSE p.coins
           a == [coins |-> coins, features |-> p.features, open |-> {1},
                 content |-> SlotsOfVersion1(p), credited |-> {}, earned |-> 0]
           u == [a EXCEPT !.earned = a.coins + Spent(a)]
<1>1. /\ p.features \subseteq Features /\ p.coins \in Nat
      /\ p.victories \in Nat /\ p.defeats \in Nat
  BY OldFeaturesAreOwned
<1>2. {1} \subseteq Slots
  BY AccountConstants DEF Slots
<1>3. coins \in Nat
  <2>1. SumOver(p.features, Price) \in Nat
    BY <1>1, FiniteData, SumOverAdds
  <2>2. /\ p.victories * VictoryCoins \in Nat
        /\ p.defeats * DefeatCoins \in Nat
    BY <1>1, AccountConstants, ProductIsNatural
  <2>3. CoinsOfVersion0(p) \in Nat
    BY <2>1, <2>2 DEF CoinsOfVersion0
  <2> QED BY <1>1, <2>3
<1> HIDE DEF coins
<1>4. Spent(a) \in Nat
  BY <1>1, <1>2, SpentAdds
<1>5. Updated(p) = u
  BY DEF Updated, coins
<1>6. Spent(u) = Spent(a)
  BY DEF Spent
<1>7. u.coins = coins /\ u.earned = coins + Spent(a)
  OBVIOUS
<1> HIDE DEF u, a
<1> QED BY <1>3, <1>4, <1>5, <1>6, <1>7 DEF Balanced

\* Coins that are received are in the balance.
LEMMA ReceivedIsBalanced ==
  ASSUME NEW a, WellFormed(a), Balanced(a), NEW n \in Nat
  PROVE  Balanced(Received(a, n))
<1>1. /\ Received(a, n).coins = a.coins + n
      /\ Received(a, n).earned = a.earned + n
      /\ Received(a, n).features = a.features
      /\ Received(a, n).open = a.open
  BY DEF Received, WellFormed
<1>2. Spent(Received(a, n)) = Spent(a)
  BY <1>1 DEF Spent
<1>3. Spent(a) \in Nat
  BY SpentAdds DEF WellFormed
<1> QED BY <1>1, <1>2, <1>3 DEF Balanced

\* A slot is only paid when it is not open, and when there is enough to pay it.
LEMMA WithSlotIsBalanced ==
  ASSUME WellFormed(account), Balanced(account), NEW s \in Slots
  PROVE  Balanced(WithSlot(s))
<1> DEFINE b == WithSlot(s)
<1>1. CASE s \in account.open \/ ~Affordable(SlotPrice[s])
  BY <1>1 DEF WithSlot
<1>2. CASE s \notin account.open /\ SlotPrice[s] <= account.coins
  <2>1. /\ b.coins = account.coins - SlotPrice[s]
        /\ b.earned = account.earned
        /\ b.features = account.features
        /\ b.open = account.open \cup {s}
    BY <1>2 DEF WithSlot, Affordable, WellFormed
  <2> HIDE DEF b
  <2>2. Spent(b) = SlotPrice[s] + Spent(account) /\ Spent(account) \in Nat
    BY <1>2, <2>1, SpentAdds DEF WellFormed
  <2>3. SlotPrice[s] \in Nat
    BY FiniteData
  <2>4. Balanced(b)
    BY <1>2, <2>1, <2>2, <2>3 DEF Balanced
  <2> QED BY <2>4 DEF b
<1> QED BY <1>1, <1>2 DEF Affordable

\* The price of a feature is taken from the balance.
LEMMA WithFeatureIsBalanced ==
  ASSUME WellFormed(account), Balanced(account), NEW f \in Features
  PROVE  Balanced(WithFeature(f))
<1> DEFINE b == WithFeature(f)
<1>1. CASE f \in account.features \/ ~Affordable(Price[f])
  BY <1>1 DEF WithFeature
<1>2. CASE f \notin account.features /\ Price[f] <= account.coins
  <2>1. /\ b.coins = account.coins - Price[f]
        /\ b.earned = account.earned
        /\ b.features = account.features \cup {f}
        /\ b.open = account.open
    BY <1>2 DEF WithFeature, Affordable, WellFormed
  <2> HIDE DEF b
  <2>2. Spent(b) = Price[f] + Spent(account) /\ Spent(account) \in Nat
    BY <1>2, <2>1, SpentAdds DEF WellFormed
  <2>3. Price[f] \in Nat
    BY FiniteData
  <2>4. Balanced(b)
    BY <1>2, <2>1, <2>2, <2>3 DEF Balanced
  <2> QED BY <2>4 DEF b
<1> QED BY <1>1, <1>2 DEF Affordable

\* A purchase is credited once.
LEMMA CompletedIsBalanced ==
  ASSUME WellFormed(account), Balanced(account),
         NEW T \in SUBSET Purchases, Completed(T)
  PROVE  Balanced(account')
<1>1. CASE products = "ready"
  <2> DEFINE r == Received(account, Worth * Cardinality(T))
  <2>1. Cardinality(T) \in Nat
    BY AccountConstants, FS_Subset, FS_CardinalityType
  <2>2. Worth * Cardinality(T) \in Nat
    BY <2>1, AccountConstants, ProductIsNatural
  <2>3. Balanced(r)
    BY <2>2, ReceivedIsBalanced
  <2>4. account' = [r EXCEPT !.credited = r.credited \cup T]
    BY <1>1 DEF Completed
  <2> HIDE DEF r
  <2>5. Paid(account') = Paid(r)
    BY <2>4 DEF Paid
  <2> QED BY <2>3, <2>5, PaidIsBalanced
<1>2. CASE products # "ready"
  BY <1>2 DEF Completed
<1> QED BY <1>1, <1>2

\* The screen of the features keeps the balance of what it edits.
LEMMA FeaturesKeepBalance ==
  ASSUME CoinsInv,
         \/ StartEraseMode \/ SelectRandomFeatures \/ Cancel
         \/ \E s \in Slots : SelectSlot(s)
         \/ \E f \in Features : SelectFeature(f)
  PROVE  Balanced(account') /\ saved' = saved
<1> USE DEF CoinsInv
<1>0. WellFormed(account) /\ Balanced(account)
  BY DEF AccountInv
<1>1. CASE StartEraseMode \/ Cancel
  BY <1>0, <1>1 DEF StartEraseMode, Cancel, Edit
<1>2. CASE SelectRandomFeatures
  <2>1. PICK content : Edit([account EXCEPT !.content = content])
    BY <1>2, Zenon DEF SelectRandomFeatures
  <2>2. Paid([account EXCEPT !.content = content]) = Paid(account)
    BY DEF Paid
  <2>3. Balanced([account EXCEPT !.content = content])
    BY <1>0, <2>2, PaidIsBalanced
  <2> QED BY <2>1, <2>3 DEF Edit
<1>3. ASSUME NEW s \in Slots, SelectSlot(s)
      PROVE  Balanced(account') /\ saved' = saved
  <2>1. Balanced(WithSlot(s))
    BY <1>0, WithSlotIsBalanced
  <2>2. CASE PurchaseSlot(s)
    BY <2>1, <2>2 DEF PurchaseSlot, Edit
  <2>3. CASE EraseSlot(s)
    <3> DEFINE a == IF s \in account.open
                    THEN [account EXCEPT !.content[s] = NoFeature]
                    ELSE account
    <3>1. Paid(a) = Paid(account)
      BY DEF Paid
    <3>2. account' = a /\ saved' = saved
      BY <2>3 DEF EraseSlot, Edit
    <3> HIDE DEF a
    <3> QED BY <1>0, <3>1, <3>2, PaidIsBalanced
  <2>4. CASE AssignSlot(s)
    <3> DEFINE w == WithSlot(s)
               a == Assigned(w, s, selected)
    <3>1. Paid(a) = Paid(w)
      BY DEF Paid, Assigned
    <3>2. account' = a /\ saved' = saved
      BY <2>4 DEF AssignSlot, Edit
    <3> HIDE DEF a
    <3> QED BY <2>1, <3>1, <3>2, PaidIsBalanced
  <2> QED BY <1>3, <2>2, <2>3, <2>4 DEF SelectSlot
<1>4. ASSUME NEW f \in Features, SelectFeature(f)
      PROVE  Balanced(account') /\ saved' = saved
  BY <1>0, <1>4, WithFeatureIsBalanced DEF SelectFeature, Edit
<1> QED BY <1>1, <1>2, <1>3, <1>4

\* The answers of the store.
LEMMA StoreKeepsBalance ==
  ASSUME CoinsInv,
         \/ ProductsAnswer \/ QueryAnswer
         \/ \E t \in Purchases : Purchase(t) \/ Acknowledged(t) \/ Consumed(t)
  PROVE  Balanced(account') /\ saved' = saved
<1>0. WellFormed(account) /\ Balanced(account)
  BY DEF CoinsInv, AccountInv
<1>1. saved' = saved
  BY DEF ProductsAnswer, QueryAnswer, Purchase, Acknowledged, Consumed, ShopStep
<1>2. \/ \E T \in SUBSET Purchases : Completed(T)
      \/ account' = account
  <2>1. CASE QueryAnswer
    <3> DEFINE in(state) == {t \in Purchases : store[t] = state}
    <3>1. Completed(in("acknowledged")) \/ account' = account
      BY <2>1 DEF QueryAnswer
    <3>2. in("acknowledged") \in SUBSET Purchases
      OBVIOUS
    <3> QED BY <3>1, <3>2
  <2>2. ASSUME NEW t \in Purchases, Acknowledged(t)
        PROVE  Completed({t}) \/ account' = account
    BY <2>2 DEF Acknowledged
  <2>3. \A t \in Purchases : {t} \in SUBSET Purchases
    OBVIOUS
  <2> QED BY <2>1, <2>2, <2>3 DEF ProductsAnswer, Purchase, Consumed
<1>3. ASSUME NEW T \in SUBSET Purchases, Completed(T)
      PROVE  Balanced(account')
  BY <1>0, <1>3, CompletedIsBalanced
<1> QED BY <1>0, <1>1, <1>2, <1>3

\* No step breaks the balance.
LEMMA CoinsNextInvariant ==
  CoinsInv /\ [AccountNext]_accountVars => CoinsInv'
<1> SUFFICES ASSUME CoinsInv, [AccountNext]_accountVars
             PROVE  CoinsInv'
  OBVIOUS
<1>1. AccountInv'
  BY AccountNextInvariant DEF CoinsInv
<1>2. WellFormed(account) /\ Balanced(account) /\ Balanced(saved)
  BY DEF CoinsInv, AccountInv
<1>3. Balanced(account') /\ Balanced(saved')
  <2>1. CASE Flush \/ Crash \/ Quit
    BY <1>2, <2>1 DEF Flush, Crash, Quit
  <2>2. ASSUME NEW s \in {"other", "features", "shop"}, Display(s)
        PROVE  Balanced(account') /\ Balanced(saved')
    BY <1>2, <2>2 DEF Display
  <2>3. CASE GameOver
    <3>1. PICK r \in Rewards : account' = Received(account, r)
      BY <2>3 DEF GameOver
    <3>2. r \in Nat /\ saved' = saved
      BY <2>3, AccountConstants DEF GameOver
    <3> QED BY <1>2, <3>1, <3>2, ReceivedIsBalanced
  <2>4. CASE UNCHANGED accountVars
    BY <1>2, <2>4 DEF accountVars
  <2> QED
    BY <1>2, <2>1, <2>2, <2>3, <2>4, FeaturesKeepBalance, StoreKeepsBalance
       DEF AccountNext
<1>4. Balanced(account)' /\ Balanced(saved)'
  BY <1>3 DEF Balanced, Spent
<1> QED BY <1>1, <1>4 DEF CoinsInv

-----------------------------------------------------------------------------
(* The theorems.                                                           *)

\* The slots of a player, in memory and in the file, are slots it owns and hold
\* features it owns, a selected feature can be put in a slot, and no purchase
\* is consumed without a credit: through every mode of the screen, every answer
\* of the store and every crash.
THEOREM AccountInvariance == AccountSpec => []AccountInv
<1> QED BY AccountInitInvariant, AccountNextInvariant, PTL DEF AccountSpec

\* The features sent with a request for a game are owned, in slots that are owned
\* (game_features, feature_flags).
THEOREM SlotsAreAlwaysOwned == AccountSpec => []SlotsAreOwned
<1>1. AccountInv => SlotsAreOwned
  BY DEF AccountInv, OwnedSlots, SlotsAreOwned
<1> QED BY <1>1, AccountInvariance, PTL

\* A purchase that the store has forgotten was credited, unless the application
\* was killed in between (purchase_completed, onConsumeResponse).
THEOREM PurchasesAreAlwaysCredited == AccountSpec => []PurchasesAreCredited
<1>1. AccountInv => PurchasesAreCredited
  BY DEF AccountInv, ConsumedIsCredited
<1> QED BY <1>1, AccountInvariance, PTL

\* In memory and in the file, what the player has received is what it has and
\* what it has paid (purchase_slot, purchase_feature, purchase_completed,
\* game_over_in_public_arena, update_preferences), however many the features, the
\* slots and the purchases are, and wherever the application is killed.
THEOREM CoinsInvariance == AccountSpec => []CoinsInv
<1>1. AccountInit => CoinsInv
  BY AccountInitInvariant, UpdatedIsBalanced DEF AccountInit, CoinsInv
<1> QED BY <1>1, CoinsNextInvariant, PTL DEF AccountSpec

\* The player has all that it has been given and has paid for, no more: no slot
\* or feature is paid twice, no coins are lost by the local preferences
\* (game_features, shop, local_preferences).
THEOREM AccountIsAlwaysRight == AccountSpec => []AccountIsRight
<1>1. CoinsInv => AccountIsRight
  BY DEF CoinsInv, Balanced, AccountInv, ConsumedIsCredited, AccountIsRight,
         CoinsAreAccountedFor
<1> QED BY <1>1, CoinsInvariance, PTL

\* An account has its type, its coins never being negative: a price is only
\* subtracted from enough coins (purchase_slot, purchase_feature), and the
\* conversion of the preferences of version 0 stops at zero.
THEOREM AccountIsTyped == AccountSpec => []AccountTypeOK
<1>1. ASSUME NEW a, WellFormed(a), Balanced(a)
      PROVE  a \in Accounts
  BY <1>1 DEF WellFormed, Balanced, Accounts
<1>2. CoinsInv => AccountTypeOK
  BY <1>1 DEF CoinsInv, AccountInv, SelectionIsOwned, AccountTypeOK
<1> QED BY <1>2, CoinsInvariance, PTL

=============================================================================
