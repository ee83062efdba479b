------------------------------- MODULE Config -------------------------------
(***************************************************************************)
(* The configuration of the application (config.cpp, main_task.cpp): the   *)
(* default one, the document the business server sends, and the copy of    *)
(* the last one in a file, which may be cut.  A document has five sections, *)
(* which are absent, of a wrong type or good, and so are their members.    *)
(***************************************************************************)
EXTENDS Integers, Sequences, SequencesExt

CONSTANTS Default,    \* the configuration of the program
          Documents   \* bound: what the server sends

VARIABLES config,     \* m_config
          file,       \* remote-config.json
          fetched     \* the answer of the server, or the error, has come

configVars == <<config, file, fetched>>

Absent == -1
WrongType == -2
NoFile == [exists |-> FALSE]

\* What is read of a file that is not JSON, since it is empty or cut: a null
\* value, where there is nothing.  An answer of the server may be null too.
Null == [s \in {"misc", "servers", "features", "slots", "shop"} |-> [type |-> "null"]]

Holding(document) == [exists |-> TRUE, document |-> document]

Failed(r) == [r EXCEPT !.ok = FALSE]

\* read_value: a member which is absent leaves the value as it is.
WithValue(r, key, value) ==
  IF value = Absent THEN r
  ELSE IF value = WrongType THEN Failed(r)
  ELSE [r EXCEPT !.config[key] = value]

WithMisc(r, misc) ==
  IF misc.type # "object" THEN Failed(r)
  ELSE WithValue(WithValue(r, "version", misc.version), "interval",
                 misc.interval)

WithServers(r, servers) ==
  IF servers.type # "array" THEN Failed(r)
  ELSE IF servers.list = <<>> THEN r
  ELSE [r EXCEPT !.config.server = servers.list[1]]

\* The prices of a list of entries, after a wrong one they are left as they are.
EntriesUntilWrong(r, key, entries) ==
  IF entries.type # "array" THEN Failed(r)
  ELSE FoldLeft(LAMBDA s, e :
         IF e.id \notin DOMAIN s.config[key] \/ e.coins < 0 THEN s
         ELSE [s EXCEPT !.config[key][e.id] = e.coins], r, entries.list)

\* Prices of features or of slots: the unknown ones are ignored.
WithPrices(r, key, entries) ==
  IF entries.type # "array" THEN Failed(r)
  ELSE FoldLeft(LAMBDA s, e :
         IF ~s.ok \/ e.id = WrongType THEN Failed(s)
         ELSE IF e.id \notin DOMAIN s.config[key] \/ e.coins = Absent THEN s
         ELSE IF e.coins = WrongType THEN Failed(s)
         ELSE [s EXCEPT !.config[key][e.id] = e.coins], r, entries.list)

\* The products have an identifier and a price.
WithProducts(r, entries) ==
  IF entries.type # "array" THEN Failed(r)
  ELSE FoldLeft(LAMBDA s, e :
         IF ~s.ok \/ WrongType \in {e.id, e.coins} THEN Failed(s)
         ELSE [s EXCEPT !.config.shop = Append(@, e)], r, entries.list)

LoadConfig(d) ==
  LET misc     == WithMisc([ok |-> TRUE, config |-> Default], d.misc)
      servers  == WithServers(misc, d.servers)
      features == WithPrices(servers, "features", d.features)
      slots    == WithPrices(features, "slots", d.slots)
  IN WithProducts(slots, d.shop)

-----------------------------------------------------------------------------

\* main_task::start: the application is launched, or reset.
Restarted ==
  /\ config' = Default
  /\ fetched' = FALSE

ConfigInit ==
  /\ config = Default
  /\ file = NoFile
  /\ fetched = FALSE

\* What is in the file once d has been saved.  The document is put in the
\* buffer of another file, which takes the name of the file, and only then is
\* the buffer written.  The file is as it was when the first steps fail.  Once
\* it is renamed, it is cut if the last one fails, which nothing tells, or if
\* the process is killed before it.
Saved(d) == {file, Holding(d), Holding(Null)}

ValidateRemoteConfig(d) ==
  LET r == LoadConfig(d) IN
    IF r.ok
    THEN config' = r.config /\ file' \in Saved(d)
    ELSE UNCHANGED <<config, file>>

LoadLocalConfig ==
  /\ IF file.exists /\ LoadConfig(file.document).ok
     THEN config' = LoadConfig(file.document).config
     ELSE UNCHANGED config
  /\ UNCHANGED file

FetchRemoteConfig ==
  /\ ~fetched
  /\ fetched' = TRUE
  /\ \/ \E d \in Documents \cup {Null} : ValidateRemoteConfig(d)
     \/ LoadLocalConfig

\* The application is reset, or killed and launched again.
Restart == Restarted /\ UNCHANGED file

ConfigNext == FetchRemoteConfig \/ Restart

ConfigSpec == ConfigInit /\ [][ConfigNext]_configVars

-----------------------------------------------------------------------------

GoodPrices(entries, key) ==
  /\ entries.type = "array"
  /\ \A e \in ToSet(entries.list) :
       /\ e.id # WrongType
       /\ e.id \in DOMAIN Default[key] => e.coins # WrongType

WellFormed(d) ==
  /\ d.misc.type = "object"
  /\ WrongType \notin {d.misc.version, d.misc.interval}
  /\ d.servers.type = "array"
  /\ GoodPrices(d.features, "features")
  /\ GoodPrices(d.slots, "slots")
  /\ d.shop.type = "array"
  /\ \A e \in ToSet(d.shop.list) : WrongType \notin {e.id, e.coins}

Wanted(value, default) == IF value = Absent THEN default ELSE value

\* What a document asks for, with the last price of each entry.
Asked(d, section, key) ==
  LET prices(i) == SelectSeq(d[section].list,
                             LAMBDA e : e.id = i /\ e.coins # Absent)
  IN [i \in DOMAIN Default[key] |->
        IF prices(i) = <<>> THEN Default[key][i]
        ELSE prices(i)[Len(prices(i))].coins]

Meaning(d) ==
  [version  |-> Wanted(d.misc.version, Default.version),
   interval |-> Wanted(d.misc.interval, Default.interval),
   server   |-> IF d.servers.list = <<>> THEN Default.server
                ELSE d.servers.list[1],
   features |-> Asked(d, "features", "features"),
   slots    |-> Asked(d, "slots", "slots"),
   shop     |-> d.shop.list]

\* Five sections are parsed one after the other, from the network or from the
\* file an older launch has left, where its save may have been cut: whatever is
\* wrong in the documents, the prices and the products in use are the default
\* ones or those of a single document, all of it; and what the file keeps for
\* the next launches is such a document, or nothing at all (load_config,
\* validate_remote_config, load_local_config).
ConfigIsWhole ==
  /\ \/ config = Default
     \/ \E d \in Documents : WellFormed(d) /\ config = Meaning(d)
  /\ file.exists => file.document = Null \/ WellFormed(file.document)

=============================================================================
