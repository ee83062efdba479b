---------------------------- MODULE Geolocation ----------------------------
(***************************************************************************)
(* The cache that gives every address a number and a country without       *)
(* keeping the address in the logs (geolocation_service), the database of  *)
(* the countries being replaced from time to time.                         *)
(***************************************************************************)
EXTENDS Integers, FiniteSets, Functions

CONSTANTS Addresses,
          Unknown,         \* the country of an address not found
          CountryOf(_, _), \* the country of an address in the n-th database
          CleanUpDelay,    \* the interval of the clean-ups, and of the releases
          MaxVersion,      \* bound on the databases loaded
          MaxId, MaxDate   \* bounds on the numbers given, and on the date

VARIABLES date,        \* the current date
          version,     \* m_database_version
          ipToId,      \* m_ip_to_id
          addressInfo, \* m_address_info
          releaseDate, \* m_release_date
          nextId,      \* m_next_id
          cleanUpAt,   \* the date of the next clean-up
          answers      \* history: the <<id, address, country>> answered

geolocationVars ==
  <<date, version, ipToId, addressInfo, releaseDate, nextId, cleanUpAt, answers>>

\* f with its value at x, and without it.
With(f, x, v) == [y \in DOMAIN f \cup {x} |-> IF y = x THEN v ELSE f[y]]
Less(f, s)    == Restrict(f, DOMAIN f \ s)

Answer(id, ip, country) == answers' = answers \cup {<<id, ip, country>>}

\* insert_new_ip.  No database is open before the first version.
Insert(ip) ==
  LET country == IF version = 0 THEN Unknown ELSE CountryOf(version, ip) IN
  /\ ip \notin DOMAIN ipToId
  /\ nextId < MaxId
  /\ nextId' = nextId + 1
  /\ releaseDate' = With(releaseDate, nextId, date + CleanUpDelay)
  /\ ipToId' = With(ipToId, ip, nextId)
  /\ addressInfo' =
       With(addressInfo, nextId, [ip |-> ip, version |-> version, country |-> country])
  /\ Answer(nextId, ip, country)
  /\ UNCHANGED <<date, version, cleanUpAt>>

\* lookup of an address whose information is that of the current database.
Hit(ip) ==
  /\ ip \in DOMAIN ipToId
  /\ LET id == ipToId[ip] IN
       /\ addressInfo[id].version = version
       /\ releaseDate' = [releaseDate EXCEPT ![id] = date + CleanUpDelay]
       /\ Answer(id, ip, addressInfo[id].country)
  /\ UNCHANGED <<date, version, ipToId, addressInfo, nextId, cleanUpAt>>

\* A variant of Refresh with a defect: the number of the address is kept.
RefreshInPlace(ip) ==
  LET id == ipToId[ip] IN
  /\ addressInfo[id].country # Unknown
  /\ addressInfo' = [addressInfo EXCEPT ![id].country = Unknown]
  /\ Answer(id, ip, Unknown)
  /\ UNCHANGED <<nextId, ipToId, releaseDate>>

\* lookup of an address after the database has changed.  The information is
\* filled from a record that has no address yet: the country is never found.
\* A change of country gives the address a new number; the version of the
\* information is not written.
Refresh(ip) ==
  LET id == ipToId[ip] IN
  /\ addressInfo[id].country # Unknown
  /\ nextId < MaxId
  /\ nextId' = nextId + 1
  /\ ipToId' = [ipToId EXCEPT ![ip] = nextId]
  /\ releaseDate' = With(Less(releaseDate, {id}), nextId, date + CleanUpDelay)
  /\ addressInfo' =
       With(Less(addressInfo, {id}), nextId, [ip |-> ip, version |-> 0, country |-> Unknown])
  /\ Answer(nextId, ip, Unknown)

LookupOutdated(ip) ==
  /\ ip \in DOMAIN ipToId
  /\ addressInfo[ipToId[ip]].version # version
  /\ \/ Refresh(ip)
     \/ /\ addressInfo[ipToId[ip]].country = Unknown
        /\ Answer(ipToId[ip], ip, Unknown)
        /\ UNCHANGED <<ipToId, addressInfo, releaseDate, nextId>>
  /\ UNCHANGED <<date, version, cleanUpAt>>

\* schedule_clean_up at the date d
NextCleanUp(d) == d + CleanUpDelay

CleanUp ==
  LET released == {id \in DOMAIN releaseDate : releaseDate[id] <= date} IN
  /\ date >= cleanUpAt
  /\ ipToId' = Less(ipToId, {addressInfo[id].ip : id \in released})
  /\ addressInfo' = Less(addressInfo, released)
  /\ releaseDate' = Less(releaseDate, released)
  /\ cleanUpAt' = NextCleanUp(date)
  /\ UNCHANGED <<date, version, nextId, answers>>

\* update_mmdb, when the new database can be opened; nothing changes otherwise.
UpdateDatabase ==
  /\ version < MaxVersion
  /\ version' = version + 1
  /\ UNCHANGED <<date, ipToId, addressInfo, releaseDate, nextId, cleanUpAt, answers>>

Wait ==
  /\ date < MaxDate /\ date < cleanUpAt
  /\ date' = date + 1
  /\ UNCHANGED <<version, ipToId, addressInfo, releaseDate, nextId, cleanUpAt, answers>>

GeolocationInit ==
  /\ date = 0 /\ version = 0 /\ nextId = 0 /\ cleanUpAt = NextCleanUp(0)
  /\ ipToId = <<>> /\ addressInfo = <<>> /\ releaseDate = <<>>
  /\ answers = {}

GeolocationNext ==
  \/ \E ip \in Addresses : Insert(ip) \/ Hit(ip) \/ LookupOutdated(ip)
  \/ CleanUp \/ UpdateDatabase \/ Wait

GeolocationSpec == GeolocationInit /\ [][GeolocationNext]_geolocationVars

-----------------------------------------------------------------------------
(* Properties. *)

\* A number stands for one address and one country for ever, and the three
\* tables speak of the same addresses (the assertions of lookup and clean_up).
NumbersIdentify ==
  /\ \A a, b \in answers : a[1] = b[1] => a = b
  /\ DOMAIN addressInfo = DOMAIN releaseDate
  /\ DOMAIN addressInfo = {ipToId[ip] : ip \in DOMAIN ipToId}
  /\ \A ip \in DOMAIN ipToId : addressInfo[ipToId[ip]].ip = ip
=============================================================================
