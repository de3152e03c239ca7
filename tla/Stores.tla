------------------------------- MODULE Stores -------------------------------
(***************************************************************************)
(* The stores (store): DB, SQLite, SqlServer and Redis give the store of a  *)
(* configuration key, made when it is first asked for, and Use gives its    *)
(* connection, opened when it is first used.  Any goroutine calls them, and *)
(* nothing but the sync.Map of a kind is locked.                            *)
(*                                                                         *)
(* The configuration of the key changes while the program runs, for viper   *)
(* watches the file.  A set of options is told by who made it: a caller, or *)
(* the Use that read a version of the configuration.                        *)
(***************************************************************************)
EXTENDS Naturals, Sequences, FiniteSets

CONSTANTS
    StoreUsers,  \* the goroutines
    MaxStores,   \* bound: the stores that are made
    MaxOpens     \* bound: the connections that are opened

ASSUME StoresAssumption == /\ IsFiniteSet(StoreUsers)
                           /\ MaxStores \in Nat /\ MaxOpens \in Nat

Kinds == {"server", "sqlite", "redis"}   \* mysql and sqlserver are alike
Settings == {"unusable", "first", "second"}
NoOptions == "nil"
FromCaller == "caller"

VARIABLES
    kind,     \* the kind of store that the program uses
    setting,  \* the configuration; unusable: missing, or mysql is not enabled
    storeMap, \* the store under the key, by its index, 0 for none
    stores,   \* options, hasCallback and connection; history: an open failed
    dbs,      \* the connections: store, options opened with, callbacks run
    goes,     \* where a goroutine is, and what it has read
    twice     \* history: stores made, or used, by two goroutines at a time
storeVars == <<kind, setting, storeMap, stores, dbs, goes, twice>>

Asleep == [pc |-> "idle", store |-> 0, given |-> NoOptions, hooked |-> FALSE,
           conf |-> NoOptions, wants |-> NoOptions, db |-> 0]

Choices == Settings \union {NoOptions, FromCaller}

StoreValues == [options: Choices, hasCallback: BOOLEAN, db: 0..MaxOpens,
                failed: BOOLEAN]
Connections == [store: 1..MaxStores, options: Choices, wants: Choices, hooked: BOOLEAN]
Goings == [pc: {"idle", "make", "have", "open", "set", "got"}, store: 0..MaxStores,
           given: {NoOptions, FromCaller}, hooked: BOOLEAN, conf: Choices,
           wants: Choices, db: 0..MaxOpens]

StoresTypeOK ==
    /\ kind \in Kinds /\ setting \in Settings /\ storeMap \in 0..MaxStores
    /\ stores \in Seq(StoreValues) /\ dbs \in Seq(Connections)
    /\ goes \in [StoreUsers -> Goings]
    /\ twice \in SUBSET (0..MaxStores)

StoresInit ==
    /\ kind \in Kinds /\ setting = "first" /\ storeMap = 0
    /\ stores = <<>> /\ dbs = <<>>
    /\ goes = [p \in StoreUsers |-> Asleep]
    /\ twice = {}

Goes(p, r) == goes' = [goes EXCEPT ![p] = r]

\* The file is edited.
Reconfigure ==
    /\ setting' \in Settings \ {setting}
    /\ UNCHANGED <<kind, storeMap, stores, dbs, goes>>

-----------------------------------------------------------------------------
\* DB: a store that is there is given as it is.  Redis takes no options.
Ask(p) ==
    /\ goes[p].pc = "idle"
    /\ \E given \in {NoOptions, FromCaller} :
         /\ kind = "redis" => given = NoOptions
         /\ Goes(p, [Asleep EXCEPT !.store = storeMap, !.given = given,
                       !.pc = IF storeMap = 0 THEN "make" ELSE "have"])
    /\ UNCHANGED <<kind, setting, storeMap, stores, dbs>>

\* Mutant: the store is not kept.
MakeLost(p) ==
    /\ goes[p].pc = "make" /\ Len(stores) < MaxStores
    /\ stores' = Append(stores, [options |-> goes[p].given, hasCallback |-> FALSE,
                                 db |-> 0, failed |-> FALSE])
    /\ UNCHANGED storeMap
    /\ Goes(p, [Asleep EXCEPT !.store = Len(stores) + 1, !.pc = "have"])
    /\ UNCHANGED <<kind, setting, dbs>>

\* A new store replaces the one that another goroutine may have made.
Make(p) ==
    /\ goes[p].pc = "make" /\ Len(stores) < MaxStores
    /\ stores' = Append(stores, [options |-> goes[p].given, hasCallback |-> FALSE,
                                 db |-> 0, failed |-> FALSE])
    /\ storeMap' = Len(stores) + 1
    /\ Goes(p, [Asleep EXCEPT !.store = Len(stores) + 1, !.pc = "have"])
    /\ UNCHANGED <<kind, setting, dbs>>

\* Nobody has begun to open a connection of the store.
Untouched(s) == /\ stores[s].db = 0
                /\ \A q \in StoreUsers : goes[q].store = s => goes[q].pc \notin {"open", "set"}

Options(p) ==
    /\ goes[p].pc = "have" /\ kind # "redis" /\ UNCHANGED goes
    /\ stores' = [stores EXCEPT ![goes[p].store].options = FromCaller]
    /\ UNCHANGED <<kind, setting, storeMap, dbs>>

\* Mutant: the first Callback counts as none.
CallbackUnmarked(p) ==
    /\ goes[p].pc = "have" /\ kind # "redis"
    /\ Goes(p, [goes[p] EXCEPT !.hooked = @ \/ Untouched(goes[p].store)])
    /\ UNCHANGED <<kind, setting, storeMap, stores, dbs>>

Callback(p) ==
    /\ goes[p].pc = "have" /\ kind # "redis"
    /\ stores' = [stores EXCEPT ![goes[p].store].hasCallback = TRUE]
    /\ Goes(p, [goes[p] EXCEPT !.hooked = @ \/ Untouched(goes[p].store)])
    /\ UNCHANGED <<kind, setting, storeMap, dbs>>

-----------------------------------------------------------------------------
(* Use                                                                      *)

Done(p) == Goes(p, Asleep)

\* The program drops what Ask gave it.
Drop(p) ==
    /\ goes[p].pc = "have" /\ Done(p)
    /\ UNCHANGED <<kind, setting, storeMap, stores, dbs>>

Usable == setting # "unusable"

\* The options of this Use, if nobody gives others now.
Wanted(s) == IF stores[s].options = FromCaller /\ kind # "sqlite" THEN FromCaller
             ELSE setting

\* The connection that is there, or the configuration; options that were not
\* given are those made of the configuration, and stay in the store.
UseConfig(p) ==
    /\ goes[p].pc = "have"
    /\ LET s == goes[p].store
           db == stores[s].db
       IN  \/ /\ db # 0
              /\ Goes(p, [goes[p] EXCEPT !.db = db, !.pc = "got"])
              /\ UNCHANGED stores
           \/ /\ db = 0 /\ ~Usable
              /\ Done(p) /\ UNCHANGED stores
           \/ /\ db = 0 /\ Usable
              /\ stores' = [stores EXCEPT ![s].options =
                              IF @ = NoOptions /\ kind # "redis" THEN setting ELSE @]
              /\ Goes(p, [goes[p] EXCEPT !.conf = setting, !.wants = Wanted(s),
                                     !.pc = "open"])
    /\ UNCHANGED <<kind, setting, storeMap, dbs>>

\* Mutant: mysql does what sqlite does.
OpenedAsSqlite(p) == goes[p].conf

\* The options of gorm.Open: sqlite does not pass the store's.
Opened(p) == IF kind \in {"sqlite", "redis"} THEN goes[p].conf
             ELSE stores[goes[p].store].options

\* Use returns nil.
Fail(p) == Done(p) /\ stores' = [stores EXCEPT ![goes[p].store].failed = TRUE]

\* gorm.Open, which connects, and the callback; redis.NewClient does not
\* connect and cannot fail.
Open(p) ==
    /\ goes[p].pc = "open"
    /\ \/ kind # "redis" /\ Fail(p) /\ UNCHANGED dbs
       \/ /\ UNCHANGED stores
          /\ Len(dbs) < MaxOpens
          /\ dbs' = Append(dbs, [store |-> goes[p].store, options |-> Opened(p),
                                 wants |-> goes[p].wants,
                                 hooked |-> stores[goes[p].store].hasCallback])
          /\ Goes(p, [goes[p] EXCEPT !.db = Len(dbs) + 1, !.pc = "set"])
    /\ UNCHANGED <<kind, setting, storeMap>>

\* Mutant: the connection is not kept.
SetLost(p) ==
    /\ goes[p].pc = "set"
    /\ Goes(p, [goes[p] EXCEPT !.pc = "got"])
    /\ UNCHANGED <<kind, setting, storeMap, stores, dbs>>

\* db.DB fails, which leaves the connection open, or the store has it.
Set(p) ==
    /\ goes[p].pc = "set"
    /\ \/ kind # "redis" /\ Fail(p)
       \/ /\ stores' = [stores EXCEPT ![goes[p].store].db = goes[p].db]
          /\ Goes(p, [goes[p] EXCEPT !.pc = "got"])
    /\ UNCHANGED <<kind, setting, storeMap, dbs>>

\* The program has its connection and goes on.
Got(p) ==
    /\ goes[p].pc = "got" /\ Done(p)
    /\ UNCHANGED <<kind, setting, storeMap, stores, dbs>>

-----------------------------------------------------------------------------
\* Two goroutines make the store, or open the connection of store s.
Both == (IF Cardinality({p \in StoreUsers : goes[p].pc = "make"}) > 1 THEN {0} ELSE {})
        \union {s \in DOMAIN stores :
                  Cardinality({p \in StoreUsers : /\ goes[p].store = s
                                                  /\ goes[p].pc \in {"open", "set"}}) > 1}

StoreStep(p) == Ask(p) \/ Make(p) \/ Options(p) \/ Callback(p) \/ Drop(p) \/ UseConfig(p)
                \/ Open(p) \/ Set(p) \/ Got(p)

StoresNext == /\ Reconfigure \/ \E p \in StoreUsers : StoreStep(p)
              /\ twice' = twice \union Both'
StoresSpec == StoresInit /\ [][StoresNext]_storeVars

-----------------------------------------------------------------------------
(* Properties.                                                              *)

\* All goroutines share one store, with the options and the callback that it
\* was given, unless two of them asked first at the same time (use.go:18).
StoreIsShared == 0 \notin twice => Len(stores) <= 1

\* A store opens one connection, and who uses the store later gets that one:
\* unless two goroutines used it first at the same time, or an earlier Use
\* failed, which may leave a connection open (use_mysql.go:91).
ConnectionIsShared ==
    \A s \in (DOMAIN stores) \ twice :
        ~stores[s].failed =>
            /\ Cardinality({d \in DOMAIN dbs : dbs[d].store = s}) <= 1
            /\ \A p \in StoreUsers : goes[p].store = s /\ goes[p].pc = "got"
                 => goes[p].db = stores[s].db

\* A connection is opened with the options of the caller, or with those of the
\* configuration that this Use has read, unless an earlier Use has failed: its
\* options stay in the store (use_mysql.go:78).  Sqlite never uses the
\* caller's, the others also those that are given while the Use goes on.
OptionsAreCurrent ==
    \A d \in DOMAIN dbs :
        LET s == dbs[d].store
        IN  \/ s \in twice \/ stores[s].failed
            \/ dbs[d].options = dbs[d].wants
            \/ dbs[d].options = FromCaller /\ kind = "server"

\* A callback that is registered while nobody has begun to open the store has
\* run on the connection that its goroutine gets.
CallbackSeesConnection ==
    \A p \in StoreUsers :
        goes[p].pc = "got" /\ goes[p].hooked => dbs[goes[p].db].hooked

\* Whoever asks for a store and uses it gets what the others get: one store
\* for the key, one connection in it, opened with options that are current, on
\* which the callback has run.  The exceptions are those of the four parts.
UsesAgree ==
    StoreIsShared /\ ConnectionIsShared /\ OptionsAreCurrent /\ CallbackSeesConnection
=============================================================================
