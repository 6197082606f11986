---------------------------- MODULE Login_proofs ----------------------------
(* What a start and the logins that follow it guarantee, for every set of   *)
(* names, every cache and every number of kills and restarts: the accounts  *)
(* are kept, and nobody gets another's; and what a player is then sent fits *)
(* the client that reads it.                                                *)
EXTENDS Login, Interfaces, FiniteSetTheorems, SequenceTheorems, WellFoundedInduction, TLAPS

\* How far a start has come: what is open and what has been described. The loop
\* of the constructor is where next says, and it ends one past the count.
StartInv ==
  /\ StartTypeOK
  /\ phase \in {"config", "database", "cache"} => next = 0 /\ stores = {} /\ described = {}
  /\ phase = "open" =>
       /\ next <= ArchiveCount + 1 /\ described = {}
       /\ stores = indexFiles \cap (0 .. next - 1)
  /\ phase \in {"populate", "serving"} => stores = indexFiles \cap (0 .. ArchiveCount)
  /\ phase = "serving" => stores = described
  /\ \A id \in described : id \in DOMAIN tables /\ tables[id] = "good"

\* An account that a NewAccount made.
IsAccount(account, name) == account = [c \in Members |-> account[c]] /\ account.username = name

\* The table and what was registered are the same accounts: one row for each
\* name, written in the order of the numbers.
RowsInv ==
  /\ Len(rows) \in Nat /\ rows = [i \in 1 .. Len(rows) |-> rows[i]]
  /\ DOMAIN registered \subseteq Names
  /\ \A name \in DOMAIN registered : IsAccount(registered[name], name)
  /\ \A i \in 1 .. Len(rows) :
       \E name \in DOMAIN registered : rows[i] = [id |-> i, row |-> Inserted(registered[name])]
  /\ \A name \in DOMAIN registered : \E i \in 1 .. Len(rows) : rows[i].row.username = name
  /\ \A i, j \in 1 .. Len(rows) : rows[i].row.username = rows[j].row.username => i = j

\* Whoever is in the world came through the checks of this server, with the
\* password of the account it plays.
PlayerInv ==
  player # Nobody =>
    /\ phase = "serving"
    /\ player.account.username \in Names
    /\ player.id # 0 =>
         /\ player.account.username \in DOMAIN registered
         /\ player.account = registered[player.account.username]
         /\ proof[1] = player.account.password[1]
    /\ \A i \in 0 .. SumCount - 1 : i \in stores /\ i \in proof[2]

Replies == {"none", "kErrorSession", "kErrorInvalidLogin", "kErrorInvalidLoginServer", "kClientOutdated", "details"}

IInv == StartInv /\ RowsInv /\ PlayerInv /\ reply \in Replies

-----------------------------------------------------------------------------
(* The start *)

\* A set of numbers that is not empty has a least one.
LEMMA LeastExists ==
  ASSUME NEW S \in SUBSET Nat, S # {}
  PROVE  \E x \in S : \A y \in S : x <= y
<1>1. PICK x \in S : \A y \in S : ~ (<<y, x>> \in OpToRel(<, Nat))
  BY WFMin, NatLessThanWellFounded
<1>2. \A y \in S : ~(y < x)
  BY <1>1 DEF OpToRel
<1>3. x \in Nat /\ \A y \in S : y \in Nat
  OBVIOUS
<1> QED
  BY <1>2, <1>3

\* The archives of the main index are those below its count.
LEMMA CountOfArchives ==
  ASSUME StartTypeOK
  PROVE  ArchiveCount \in 0 .. MaxArchives /\ DOMAIN tables = 0 .. ArchiveCount - 1
<1>1. PICK n \in 0 .. MaxArchives : tables \in [0 .. n - 1 -> Tables]
  BY DEF StartTypeOK
<1>2. DOMAIN tables = 0 .. n - 1
  BY <1>1
<1>3. CASE DOMAIN tables = {}
  BY <1>3, StartupAssumption DEF ArchiveCount, StartupAssumption
<1>4. CASE DOMAIN tables # {}
  <2>1. n \in 1 .. MaxArchives
    BY <1>2, <1>4, StartupAssumption DEF StartupAssumption
  <2>2. ArchiveCount = CHOOSE m \in 1 .. MaxArchives : DOMAIN tables = 0 .. m - 1
    BY <1>4 DEF ArchiveCount
  <2>3. ArchiveCount \in 1 .. MaxArchives /\ DOMAIN tables = 0 .. ArchiveCount - 1
    BY <1>2, <2>1, <2>2
  <2> QED
    BY <2>3
<1> QED
  BY <1>3, <1>4

\* The store whose table is read next is one that is open and not described.
LEMMA NextStoreIsOpen ==
  ASSUME StartTypeOK, stores # described
  PROVE  NextStore \in stores \ described
<1>0. stores \subseteq 0 .. MaxArchives /\ described \subseteq stores
  BY DEF StartTypeOK, IndexNumbers
<1>1. stores \ described \in SUBSET Nat /\ stores \ described # {}
  <2>1. \A id \in stores : id \in Nat
    BY <1>0
  <2> QED
    BY <1>0, <2>1
<1>2. \E x \in stores \ described : \A y \in stores \ described : x <= y
  BY <1>1, LeastExists
<1> QED
  BY <1>2 DEF NextStore

\* Every step of a start keeps its invariant.
LEMMA StartStep == StartInv /\ (Start \/ Restart) => StartInv'
<1> SUFFICES ASSUME StartInv, Start \/ Restart PROVE StartInv'
  OBVIOUS
<1> USE StartupAssumption DEF StartupAssumption
<1>0. StartTypeOK
  BY DEF StartInv
<1>1. ArchiveCount \in 0 .. MaxArchives /\ DOMAIN tables = 0 .. ArchiveCount - 1
  BY <1>0, CountOfArchives
<1>2. ASSUME UNCHANGED tables PROVE ArchiveCount' = ArchiveCount
  BY <1>2 DEF ArchiveCount
<1>3. CASE InitConfig
  <2>1. StartTypeOK'
    BY <1>3 DEF InitConfig, StartInv, StartTypeOK, Running, DefaultMode
  <2> QED
    BY <1>3, <2>1 DEF InitConfig, StartInv
<1>4. CASE InitDatabase
  <2>1. phase' \in {"failed", "aborted", "cache"} /\ UNCHANGED <<mode, fileVars, next, stores, described>>
    BY <1>4 DEF InitDatabase, InitMySQL, InitSqlite
  <2>2. StartTypeOK'
    BY <2>1 DEF StartInv, StartTypeOK, Running, fileVars
  <2> QED
    BY <1>4, <2>1, <2>2 DEF InitDatabase, StartInv, fileVars
<1>5. CASE InitCache
  <2>1. phase = "cache" /\ phase' \in {"failed", "open"} /\ UNCHANGED <<mode, fileVars, next, stores, described>>
    BY <1>5 DEF InitCache
  <2>2. StartTypeOK'
    BY <2>1 DEF StartInv, StartTypeOK, Running, fileVars
  <2>3. next = 0 /\ stores = {} /\ described = {}
    BY <2>1 DEF StartInv
  <2>4. stores = indexFiles \cap (0 .. next - 1)
    BY <2>3
  <2>5. ArchiveCount' = ArchiveCount
    BY <1>2, <2>1 DEF fileVars
  <2> QED
    BY <1>1, <2>1, <2>2, <2>3, <2>4, <2>5 DEF StartInv, fileVars
<1>6. CASE OpenIndex
  <2>0. /\ phase = "open" /\ UNCHANGED <<mode, fileVars, described>> /\ described = {}
        /\ next <= ArchiveCount + 1 /\ stores = indexFiles \cap (0 .. next - 1)
        /\ next \in 0 .. MaxArchives + 1
        /\ indexFiles \subseteq 0 .. MaxArchives
    BY <1>6 DEF OpenIndex, StartInv, StartTypeOK, IndexNumbers
  <2>5. ArchiveCount' = ArchiveCount
    BY <1>2, <2>0 DEF fileVars
  <2>1. CASE next <= ArchiveCount
    <3>1. stores' = stores \cup ({next} \cap indexFiles) /\ next' = (next + 1) % kCounter /\ phase' = phase
      BY <1>6, <2>1 DEF OpenIndex
    <3>2. next' = next + 1
      BY <1>1, <2>0, <2>1, <3>1
    <3>3. next' \in 0 .. MaxArchives + 1 /\ next' <= ArchiveCount + 1
      BY <1>1, <2>0, <2>1, <3>2
    <3>4. stores' = indexFiles \cap (0 .. next' - 1)
      <4>1. 0 .. next' - 1 = (0 .. next - 1) \cup {next}
        BY <2>0, <3>2
      <4> QED
        BY <2>0, <3>1, <4>1
    <3>5. StartTypeOK'
      BY <2>0, <3>1, <3>3, <3>4 DEF StartInv, StartTypeOK, fileVars, IndexNumbers
    <3> QED
      BY <2>0, <2>5, <3>1, <3>3, <3>4, <3>5 DEF StartInv, fileVars
  <2>2. CASE next > ArchiveCount
    <3>0. ~(next <= ArchiveCount)
      BY <1>1, <2>0, <2>2
    <3>1. phase' = "populate" /\ UNCHANGED <<stores, next>>
      BY <1>6, <3>0 DEF OpenIndex
    <3>2. next - 1 = ArchiveCount
      BY <1>1, <2>0, <2>2
    <3>3. StartTypeOK'
      BY <2>0, <3>1 DEF StartInv, StartTypeOK, fileVars, Running
    <3> QED
      BY <2>0, <2>5, <3>1, <3>2, <3>3 DEF StartInv, fileVars
  <2> QED
    BY <1>1, <2>0, <2>1, <2>2
<1>7. CASE PopulateIndex
  <2>0. phase = "populate" /\ stores # described /\ UNCHANGED <<mode, fileVars, next, stores>>
    BY <1>7 DEF PopulateIndex
  <2>1. NextStore \in stores \ described
    BY <1>0, <2>0, NextStoreIsOpen
  <2>5. ArchiveCount' = ArchiveCount
    BY <1>2, <2>0 DEF fileVars
  <2>2. CASE NextStore \in DOMAIN tables /\ tables[NextStore] = "good"
    <3>1. described' = described \cup {NextStore} /\ UNCHANGED phase
      BY <1>7, <2>2 DEF PopulateIndex
    <3>2. StartTypeOK'
      BY <2>0, <2>1, <3>1 DEF StartInv, StartTypeOK, fileVars
    <3> QED
      BY <2>0, <2>2, <2>5, <3>1, <3>2 DEF StartInv, fileVars
  <2>3. CASE ~(NextStore \in DOMAIN tables /\ tables[NextStore] = "good")
    <3>1. phase' \in {"aborted", "failed"} /\ UNCHANGED described
      BY <1>7, <2>3 DEF PopulateIndex
    <3>2. StartTypeOK'
      BY <2>0, <3>1 DEF StartInv, StartTypeOK, fileVars
    <3> QED
      BY <2>0, <3>1, <3>2 DEF StartInv, fileVars
  <2> QED
    BY <2>2, <2>3
<1>8. CASE Serve
  <2>1. /\ phase = "populate" /\ stores = described /\ phase' \in {"serving", "failed"}
        /\ UNCHANGED <<mode, fileVars, next, stores, described>>
    BY <1>8 DEF Serve
  <2>2. StartTypeOK'
    BY <2>1 DEF StartInv, StartTypeOK, fileVars, Running
  <2>5. ArchiveCount' = ArchiveCount
    BY <1>2, <2>1 DEF fileVars
  <2> QED
    BY <2>1, <2>2, <2>5 DEF StartInv, fileVars
<1>9. CASE Restart
  <2>1. /\ phase' = "config" /\ mode' = "unset" /\ next' = 0 /\ stores' = {} /\ described' = {}
        /\ UNCHANGED fileVars
    BY <1>9 DEF Restart
  <2>2. StartTypeOK'
    BY <2>1 DEF StartInv, StartTypeOK, fileVars, Running
  <2> QED
    BY <2>1, <2>2 DEF StartInv
<1> QED
  BY <1>3, <1>4, <1>5, <1>6, <1>7, <1>8, <1>9 DEF Start

\* A process that ends, or goes on serving, leaves what was started as it is.
LEMMA StartedStaysStarted ==
  ASSUME StartInv, UNCHANGED <<mode, fileVars, next, stores, described>>,
         phase' = phase \/ phase' \in {"aborted", "killed"}
  PROVE  StartInv'
<1>1. ArchiveCount' = ArchiveCount
  BY DEF ArchiveCount, fileVars
<1>2. StartTypeOK'
  BY DEF StartInv, StartTypeOK, fileVars
<1> QED
  BY <1>1, <1>2 DEF StartInv, fileVars

\* Whether the file of the accounts fails says nothing of what was started.
LEMMA DatabaseKeepsStart == StartInv /\ DatabaseChanges => StartInv'
<1> SUFFICES ASSUME StartInv, DatabaseChanges PROVE StartInv'
  OBVIOUS
<1>1. /\ UNCHANGED <<phase, mode, configFile, settings, cacheFiles, keys, indexFiles, tables, next, stores, described>>
      /\ database' \in {"works", "fails"}
  BY DEF DatabaseChanges
<1>2. ArchiveCount' = ArchiveCount
  BY <1>1 DEF ArchiveCount
<1>3. StartTypeOK'
  BY <1>1 DEF StartInv, StartTypeOK
<1> QED
  BY <1>1, <1>2, <1>3 DEF StartInv

\* A server that serves is complete.
LEMMA ServesComplete == StartInv => StoresAreComplete
<1> SUFFICES ASSUME StartInv, phase = "serving"
             PROVE  /\ stores = indexFiles \cap DOMAIN tables /\ described = stores
                    /\ \A id \in stores : tables[id] = "good"
  BY DEF StoresAreComplete
<1>1. ArchiveCount \in 0 .. MaxArchives /\ DOMAIN tables = 0 .. ArchiveCount - 1
  BY CountOfArchives DEF StartInv
<1>2. /\ described = stores /\ stores = indexFiles \cap (0 .. ArchiveCount)
      /\ \A id \in described : id \in DOMAIN tables /\ tables[id] = "good"
  BY DEF StartInv
<1>3. DOMAIN tables \subseteq 0 .. ArchiveCount
  BY <1>1
<1>4. stores = indexFiles \cap DOMAIN tables
  BY <1>2, <1>3
<1> QED
  BY <1>2, <1>4


-----------------------------------------------------------------------------
(* The accounts *)

\* The two lists of a column set name the same columns in the same order, so
\* every member reaches the column of its name.
LEMMA BindsAreDefinitions == Binds = Definitions /\ Members = Columns
<1>1. /\ PlayerBinds = PlayerDefinitions /\ AppearanceBinds = AppearanceDefinitions
      /\ SkillsBinds = SkillsDefinitions /\ WorldTileBinds = WorldTileDefinitions
  BY DEF PlayerBinds, PlayerDefinitions, AppearanceBinds, AppearanceDefinitions, SkillsBinds,
     SkillsDefinitions, WorldTileBinds, WorldTileDefinitions
<1>2. Binds = Definitions
  BY <1>1 DEF Binds, Definitions
<1> QED
  BY <1>2 DEF Members, Columns

\* What is read back is what was written.
LEMMA ReadAsWritten ==
  ASSUME NEW account
  PROVE  /\ DOMAIN Inserted(account) = Columns
         /\ \A c \in Columns : Inserted(account)[c] = account[c]
         /\ Selected(Inserted(account)) = [c \in Members |-> account[c]]
<1>1. ASSUME NEW c \in Columns PROVE Inserted(account)[c] = account[c]
  <2> DEFINE i == CHOOSE n \in 1 .. Len(Definitions) : Definitions[n] = c
  <2>1. \E n \in 1 .. Len(Definitions) : Definitions[n] = c
    BY <1>1 DEF Columns
  <2>2. Definitions[i] = c
    BY <2>1
  <2>3. Inserted(account)[c] = account[Binds[i]]
    BY <1>1 DEF Inserted
  <2> HIDE DEF i
  <2> QED
    BY <2>2, <2>3, BindsAreDefinitions
<1>2. \A c \in Members : Inserted(account)[c] = account[c]
  BY <1>1, BindsAreDefinitions
<1>3. Selected(Inserted(account)) = [c \in Members |-> account[c]]
  BY <1>2 DEF Selected
<1> QED
  BY <1>1, <1>3 DEF Inserted

\* A sequence stands unchanged at the head of one that continues it.
LEMMA HeadOfConcat ==
  ASSUME NEW S, NEW s \in Seq(S), NEW t \in Seq(S)
  PROVE  /\ s \o t \in Seq(S) /\ Len(s \o t) >= Len(s)
         /\ \A i \in 1 .. Len(s) : (s \o t)[i] = s[i]
<1>1. Len(s) \in Nat /\ Len(t) \in Nat
  OBVIOUS
<1>2. s \o t \in Seq(S) /\ Len(s \o t) = Len(s) + Len(t)
  BY ConcatProperties
<1>3. \A i \in 1 .. Len(s) : (s \o t)[i] = s[i]
  <2> TAKE i \in 1 .. Len(s)
  <2>1. i \in 1 .. Len(s) + Len(t) /\ i <= Len(s)
    BY <1>1
  <2> QED
    BY <2>1, ConcatProperties
<1> QED
  BY <1>1, <1>2, <1>3

\* The name and the password are among the members.
LEMMA NameIsMember == "username" \in Members /\ "password" \in Members
<1> DEFINE S == {"username", "password", "salt", "rights", "skull_time_left",
                 "look_hair", "look_beard", "look_torso", "look_arms", "look_forearms", "look_legs", "look_shoes",
                 "colour_shoes", "colour_legs", "colour_torso", "colour_hair", "colour_skin",
                 "skill_attack", "position_x", "position_y", "position_z"}
<1>1. PlayerBinds \in Seq(S)
  BY DEF PlayerBinds
<1>2. AppearanceBinds \in Seq(S)
  BY DEF AppearanceBinds
<1>3. SkillsBinds \in Seq(S)
  BY DEF SkillsBinds
<1>4. WorldTileBinds \in Seq(S)
  BY DEF WorldTileBinds
<1> HIDE DEF S
<1>5. Len(PlayerBinds) = 5 /\ PlayerBinds[1] = "username" /\ PlayerBinds[2] = "password"
  BY DEF PlayerBinds
<1> DEFINE Starts(s) == s \in Seq(S) /\ Len(s) >= 5 /\ s[1] = "username" /\ s[2] = "password"
<1>6. ASSUME NEW s \in Seq(S), Starts(s), NEW t \in Seq(S) PROVE Starts(s \o t)
  <2>1. Len(s) \in Nat /\ 1 \in 1 .. Len(s) /\ 2 \in 1 .. Len(s)
    BY <1>6
  <2>2. /\ s \o t \in Seq(S) /\ Len(s \o t) >= Len(s)
        /\ (s \o t)[1] = s[1] /\ (s \o t)[2] = s[2]
    BY <2>1, HeadOfConcat
  <2>3. Len(s \o t) \in Nat
    BY <2>2
  <2> QED
    BY <1>6, <2>1, <2>2, <2>3
<1>7. Starts(PlayerBinds)
  BY <1>1, <1>5
<1>8. Starts(PlayerBinds \o AppearanceBinds)
  BY <1>1, <1>2, <1>6, <1>7
<1>9. Starts(PlayerBinds \o AppearanceBinds \o SkillsBinds)
  BY <1>3, <1>6, <1>8
<1>10. Starts(Binds)
  BY <1>4, <1>6, <1>9 DEF Binds
<1>11. Len(Binds) \in Nat
  BY <1>10
<1>12. 1 \in 1 .. Len(Binds) /\ 2 \in 1 .. Len(Binds)
  BY <1>10, <1>11
<1> QED
  BY <1>10, <1>12 DEF Members

\* A new account has the name and the password of the login it was made for.
LEMMA NewAccountIsOwn ==
  ASSUME NEW name, NEW password, NEW salt, NEW looks, NEW skin
  PROVE  /\ IsAccount(NewAccount(name, password, salt, looks, skin), name)
         /\ NewAccount(name, password, salt, looks, skin).password[1] = password
<1> DEFINE account == NewAccount(name, password, salt, looks, skin)
           own == [username |-> name, password |-> EncodePassword(password, salt), salt |-> salt,
                   position_x |-> StartX, position_y |-> StartY, position_z |-> StartZ]
           look == WithSkin(looks, skin)
<1>1. account = [c \in Members |-> IF c \in DOMAIN own THEN own[c] ELSE IF c \in DOMAIN look THEN look[c] ELSE Blank[c]]
  BY DEF NewAccount
<1>2. "username" \in DOMAIN own /\ "password" \in DOMAIN own
  OBVIOUS
<1>3. own["username"] = name /\ own["password"] = <<password, salt>>
  BY DEF EncodePassword
<1> HIDE DEF own, look
<1>4. account["username"] = name /\ account["password"] = <<password, salt>>
  BY <1>1, <1>2, <1>3, NameIsMember
<1>5. account = [c \in Members |-> account[c]]
  BY <1>1
<1> HIDE DEF account
<1>6. account.username = name /\ account.password[1] = password
  BY <1>4
<1> QED
  BY <1>5, <1>6 DEF IsAccount, account

\* A row has the name of the account in it.
LEMMA RowsHaveNames ==
  ASSUME NEW account, NEW name, IsAccount(account, name)
  PROVE  /\ Inserted(account).username = name
         /\ Inserted(account).password = account.password
         /\ Selected(Inserted(account)) = account
<1>1. "username" \in Columns /\ "password" \in Columns
  BY NameIsMember, BindsAreDefinitions
<1> QED
  BY <1>1, ReadAsWritten DEF IsAccount


\* A sequence is continued by one element and keeps the others.
LEMMA RowsAppended ==
  ASSUME NEW s, NEW n \in Nat, Len(s) = n, s = [i \in 1 .. n |-> s[i]], NEW e
  PROVE  /\ Len(Append(s, e)) = n + 1
         /\ Append(s, e) = [i \in 1 .. n + 1 |-> Append(s, e)[i]]
         /\ Append(s, e)[n + 1] = e
         /\ \A i \in 1 .. n : Append(s, e)[i] = s[i]
<1> DEFINE S == {s[i] : i \in 1 .. n} \cup {e}
<1>1. s \in Seq(S)
  <2>1. \A i \in 1 .. n : s[i] \in S
    OBVIOUS
  <2> HIDE DEF S
  <2> QED
    BY <2>1
<1>2. e \in S
  OBVIOUS
<1> HIDE DEF S
<1> QED
  BY <1>1, <1>2, AppendProperties

\* What a search by name finds: nothing for a name that was never registered,
\* and else the account of that name.
LEMMA FoundIsOwn ==
  ASSUME RowsInv, NEW name
  PROVE  /\ Found(name) = {} /\ KnownMode => name \notin DOMAIN registered
         /\ \A i \in Found(name) :
              /\ i \in 1 .. Len(rows) /\ rows[i].id = i /\ name \in DOMAIN registered
              /\ Selected(rows[i].row) = registered[name] /\ registered[name].username = name
<1>1. ASSUME Found(name) = {}, KnownMode, name \in DOMAIN registered PROVE FALSE
  <2>1. PICK i \in 1 .. Len(rows) : rows[i].row.username = name
    BY <1>1 DEF RowsInv
  <2> QED
    BY <1>1, <2>1 DEF Found, Select
<1>2. ASSUME NEW i \in Found(name)
      PROVE  /\ i \in 1 .. Len(rows) /\ rows[i].id = i /\ name \in DOMAIN registered
             /\ Selected(rows[i].row) = registered[name] /\ registered[name].username = name
  <2>1. i \in 1 .. Len(rows) /\ rows[i].row.username = name
    BY <1>2 DEF Found, Select
  <2>2. PICK other \in DOMAIN registered : rows[i] = [id |-> i, row |-> Inserted(registered[other])]
    BY <2>1 DEF RowsInv
  <2>3. IsAccount(registered[other], other)
    BY <2>2 DEF RowsInv
  <2>4. rows[i].id = i /\ rows[i].row = Inserted(registered[other])
    BY <2>2
  <2>5. other = name
    BY <2>1, <2>3, <2>4, RowsHaveNames
  <2> QED
    BY <2>1, <2>2, <2>3, <2>4, <2>5, RowsHaveNames DEF IsAccount
<1> QED
  BY <1>1, <1>2

\* An account is added under its name, and nothing else changes.
LEMMA RegisterKeepsRows ==
  ASSUME RowsInv, NEW name \in Names, name \notin DOMAIN registered,
         NEW account, IsAccount(account, name),
         rows' = Insert(rows, account), registered' = Registered(name, account)
  PROVE  /\ RowsInv' /\ name \in DOMAIN registered' /\ registered'[name] = account
         /\ Len(rows) + 1 \in 1 .. Len(rows') /\ rows'[Len(rows) + 1].id = Len(rows) + 1
<1> DEFINE n == Len(rows)
           new == [id |-> n + 1, row |-> Inserted(account)]
<1>1. /\ DOMAIN registered' = DOMAIN registered \cup {name} /\ registered'[name] = account
      /\ \A other \in DOMAIN registered : registered'[other] = registered[other]
  BY DEF Registered
<1>2. n \in Nat /\ Len(rows) = n /\ rows = [i \in 1 .. n |-> rows[i]]
  BY DEF RowsInv
<1>3. rows' = Append(rows, new)
  BY DEF Insert
<1> HIDE DEF new, n
<1>4. /\ Len(rows') = n + 1 /\ rows' = [i \in 1 .. n + 1 |-> rows'[i]]
      /\ rows'[n + 1] = new /\ \A i \in 1 .. n : rows'[i] = rows[i]
  BY <1>2, <1>3, RowsAppended
<1>5. new.id = n + 1 /\ new.row = Inserted(account) /\ new.row.username = name
  BY RowsHaveNames DEF new
<1>6. \A i \in 1 .. n + 1 : i \in 1 .. n \/ i = n + 1
  BY <1>2
<1>7. \A i \in 1 .. n : rows[i].row.username \in DOMAIN registered
  <2> TAKE i \in 1 .. n
  <2>1. PICK other \in DOMAIN registered : rows[i] = [id |-> i, row |-> Inserted(registered[other])]
    BY <1>2 DEF RowsInv
  <2>2. IsAccount(registered[other], other)
    BY DEF RowsInv
  <2> QED
    BY <2>1, <2>2, RowsHaveNames
<1>8. \A other \in DOMAIN registered' : IsAccount(registered'[other], other)
  BY <1>1 DEF RowsInv
<1>9. \A i \in 1 .. n + 1 :
        \E other \in DOMAIN registered' : rows'[i] = [id |-> i, row |-> Inserted(registered'[other])]
  <2> TAKE i \in 1 .. n + 1
  <2>1. CASE i \in 1 .. n
    <3>1. PICK other \in DOMAIN registered : rows[i] = [id |-> i, row |-> Inserted(registered[other])]
      BY <1>2, <2>1 DEF RowsInv
    <3> QED
      BY <1>1, <1>4, <2>1, <3>1
  <2>2. CASE i = n + 1
    BY <1>1, <1>4, <2>2 DEF new
  <2> QED
    BY <1>6, <2>1, <2>2
<1>10. \A other \in DOMAIN registered' : \E i \in 1 .. n + 1 : rows'[i].row.username = other
  <2> TAKE other \in DOMAIN registered'
  <2>1. CASE other = name
    <3>1. n + 1 \in 1 .. n + 1
      BY <1>2
    <3> QED
      BY <1>4, <1>5, <2>1, <3>1
  <2>2. CASE other \in DOMAIN registered
    <3>1. PICK i \in 1 .. n : rows[i].row.username = other
      BY <1>2, <2>2 DEF RowsInv
    <3>2. i \in 1 .. n + 1
      BY <1>2, <3>1
    <3> QED
      BY <1>4, <3>1, <3>2
  <2> QED
    BY <1>1, <2>1, <2>2
<1>11. \A i, j \in 1 .. n + 1 : rows'[i].row.username = rows'[j].row.username => i = j
  <2> TAKE i, j \in 1 .. n + 1
  <2>1. CASE i \in 1 .. n /\ j \in 1 .. n
    BY <1>2, <1>4, <2>1 DEF RowsInv
  <2>2. CASE i = n + 1 /\ j \in 1 .. n
    BY <1>4, <1>5, <1>7, <2>2
  <2>3. CASE i \in 1 .. n /\ j = n + 1
    BY <1>4, <1>5, <1>7, <2>3
  <2> QED
    BY <1>6, <2>1, <2>2, <2>3
<1>12. Len(rows') \in Nat /\ DOMAIN registered' \subseteq Names
  BY <1>1, <1>2, <1>4 DEF RowsInv
<1>13. RowsInv'
  BY <1>4, <1>8, <1>9, <1>10, <1>11, <1>12 DEF RowsInv
<1>14. n + 1 \in 1 .. Len(rows') /\ rows'[n + 1].id = n + 1
  BY <1>2, <1>4, <1>5
<1> QED
  BY <1>1, <1>13, <1>14 DEF n


-----------------------------------------------------------------------------
(* The logins *)

\* How many checksums are asked for; where the first one fails, if any does.
LEMMA FirstFailingFails ==
  ASSUME StartTypeOK, NEW p, FailingSums(p) # {}
  PROVE  FirstFailing(p) \in FailingSums(p) /\ FirstFailing(p) \in 0 .. SumCount - 1
<1> USE StartupAssumption, LoginAssumption DEF StartupAssumption, LoginAssumption
<1>1. IsFiniteSet(0 .. MaxArchives)
  BY FS_Interval
<1>2. Cardinality(stores) \in Nat
  BY <1>1, FS_Subset, FS_CardinalityType DEF StartTypeOK, IndexNumbers
<1>3. SumCount \in Nat
  BY <1>2 DEF SumCount
<1>4. FailingSums(p) \in SUBSET Nat
  BY <1>3 DEF FailingSums
<1>5. \E i \in FailingSums(p) : \A j \in FailingSums(p) : i <= j
  BY <1>4, LeastExists
<1>6. FirstFailing(p) \in FailingSums(p)
  BY <1>5 DEF FirstFailing
<1> QED
  BY <1>6 DEF FailingSums

\* A refusal, or the end of the process, leaves nobody in the world.
LEMMA NobodyIsSafe ==
  ASSUME IInv, UNCHANGED <<mode, fileVars, next, stores, described, accountVars>>,
         phase' = phase \/ phase' \in {"aborted", "killed"},
         player' = Nobody, reply' \in Replies
  PROVE  IInv'
<1>1. StartInv'
  BY StartedStaysStarted DEF IInv
<1>2. RowsInv'
  BY DEF IInv, RowsInv, accountVars
<1>3. PlayerInv'
  BY DEF PlayerInv
<1> QED
  BY <1>1, <1>2, <1>3 DEF IInv

\* Whoever enters after the checks, with an account of his own, is one the
\* invariant allows.
LEMMA EnterIsSafe ==
  ASSUME IInv, RowsInv', NEW p, Accepted(p), NEW account, NEW id, Enter(p, account, id),
         account.username \in Names,
         id # 0 => /\ account.username \in DOMAIN registered'
                   /\ account = registered'[account.username]
                   /\ p.password = account.password[1]
  PROVE  IInv'
<1>1. UNCHANGED <<mode, fileVars, next, stores, described>>
  BY DEF Enter
<1>2. CASE End
  <2>1. phase' = "aborted" /\ player' = Nobody /\ reply' = "none"
    BY <1>2 DEF End
  <2>2. StartInv'
    BY <1>1, <2>1, StartedStaysStarted DEF IInv
  <2> QED
    BY <2>1, <2>2 DEF IInv, PlayerInv, Replies
<1>3. CASE ~End
  <2>1. /\ player' = [account |-> account, id |-> id] /\ reply' = "details"
        /\ proof' = <<p.password, p.right>> /\ phase' = phase
    BY <1>3 DEF Enter
  <2>2. StartInv'
    BY <1>1, <2>1, StartedStaysStarted DEF IInv
  <2>3. phase = "serving"
    BY DEF Accepted, Decrypted, HasBlock, Ready
  <2>4. SumCount' = SumCount
    BY <1>1 DEF SumCount
  <2>5. \A i \in 0 .. SumCount - 1 : i \in stores /\ i \in p.right
    BY DEF Accepted, FailingSums, SumFails
  <2>6. player'.account = account /\ player'.id = id /\ proof'[1] = p.password /\ proof'[2] = p.right
    BY <2>1
  <2>7. PlayerInv'
    BY <1>1, <2>1, <2>3, <2>4, <2>5, <2>6 DEF PlayerInv
  <2> QED
    BY <2>1, <2>2, <2>7 DEF IInv, Replies
<1> QED
  BY <1>2, <1>3

\* A name is registered once, with the password of that login.
LEMMA RegisterIsSafe ==
  ASSUME IInv, NEW p \in Packets, Register(p)
  PROVE  IInv'
<1>1. PICK salt \in Salts, looks \in {Male, Female}, skin \in Skins :
        LET account == NewAccount(p.name, p.password, salt, looks, skin)
            id == IF KnownMode THEN Len(rows) + 1 ELSE 0
        IN  /\ rows' = IF KnownMode THEN Insert(rows, account) ELSE rows
            /\ registered' = IF KnownMode THEN Registered(p.name, account) ELSE registered
            /\ Enter(p, account, id)
  BY DEF Register
<1> DEFINE account == NewAccount(p.name, p.password, salt, looks, skin)
           id == IF KnownMode THEN Len(rows) + 1 ELSE 0
<1>2. Accepted(p) /\ Found(p.name) = {} /\ p.name \in Names
  BY DEF Register, Asked, Packets
<1>3. IsAccount(account, p.name) /\ account.password[1] = p.password
  BY NewAccountIsOwn
<1>4. Enter(p, account, id)
  BY <1>1
<1>5. account.username = p.name
  BY <1>3 DEF IsAccount
<1>6. CASE KnownMode
  <2>1. rows' = Insert(rows, account) /\ registered' = Registered(p.name, account)
    BY <1>1, <1>6
  <2>2. p.name \notin DOMAIN registered
    BY <1>2, <1>6, FoundIsOwn DEF IInv
  <2> HIDE DEF account, id
  <2>3. RowsInv' /\ p.name \in DOMAIN registered' /\ registered'[p.name] = account
    BY <1>2, <1>3, <2>1, <2>2, RegisterKeepsRows DEF IInv
  <2> QED
    BY <1>2, <1>3, <1>4, <1>5, <2>3, EnterIsSafe
<1>7. CASE ~KnownMode
  <2>1. rows' = rows /\ registered' = registered /\ id = 0
    BY <1>1, <1>7
  <2>2. RowsInv'
    BY <2>1 DEF IInv, RowsInv
  <2> HIDE DEF account, id
  <2> QED
    BY <1>2, <1>4, <1>5, <2>1, <2>2, EnterIsSafe
<1> QED
  BY <1>6, <1>7

\* Only the password an account was registered with lets its owner in.
LEMMA LogInIsSafe ==
  ASSUME IInv, NEW p \in Packets, LogIn(p)
  PROVE  IInv'
<1>1. Accepted(p) /\ Found(p.name) # {} /\ UNCHANGED accountVars /\ p.name \in Names
  BY DEF LogIn, Asked, Packets
<1>2. CASE \E opcode \in Replies : Refuse(opcode)
  <2>1. PICK opcode \in Replies : Refuse(opcode)
    BY <1>2
  <2> QED
    BY <2>1, NobodyIsSafe DEF Refuse, startVars
<1>3. CASE ~ \E opcode \in Replies : Refuse(opcode)
  <2> DEFINE i == CHOOSE i \in Found(p.name) : TRUE
             r == rows[i]
  <2>1. i \in Found(p.name)
    BY <1>1
  <2>2. ~Refuse("kErrorInvalidLoginServer") /\ ~Refuse("kErrorInvalidLogin")
    BY <1>3 DEF Replies
  <2>3. CheckPassword(Selected(r.row), p.password) /\ Enter(p, Selected(r.row), r.id)
    BY <2>2 DEF LogIn
  <2>4. Selected(r.row) = registered[p.name] /\ p.name \in DOMAIN registered /\ registered[p.name].username = p.name
    BY <2>1, FoundIsOwn DEF IInv
  <2> HIDE DEF r, i
  <2> DEFINE account == Selected(r.row)
             id == r.id
  <2>5. <<p.password, account.salt>> = account.password
    BY <2>3 DEF CheckPassword, EncodePassword
  <2>6. p.password = account.password[1]
    BY <2>5
  <2>7. account.username = p.name /\ account = registered[p.name] /\ Enter(p, account, id)
    BY <2>3, <2>4
  <2>8. registered' = registered /\ RowsInv'
    BY <1>1 DEF accountVars, IInv, RowsInv
  <2> HIDE DEF account, id
  <2> QED
    BY <1>1, <2>4, <2>6, <2>7, <2>8, EnterIsSafe
<1> QED
  BY <1>2, <1>3

\* Every step of a server, from its start to its end and on, keeps the
\* invariant.
LEMMA IInvStep == IInv /\ [Next]_vars => IInv'
<1> SUFFICES ASSUME IInv, [Next]_vars PROVE IInv'
  OBVIOUS
<1>1. CASE (Start \/ Restart) /\ UNCHANGED <<accountVars, sessionVars>>
  <2>1. StartInv'
    BY <1>1, StartStep DEF IInv
  <2>2. RowsInv' /\ reply' \in Replies
    BY <1>1 DEF IInv, RowsInv, accountVars, sessionVars
  <2>3. phase # "serving"
    BY <1>1 DEF Start, InitConfig, InitDatabase, InitCache, OpenIndex, PopulateIndex, Serve, Restart
  <2>4. player = Nobody /\ player' = player
    BY <1>1, <2>3 DEF IInv, PlayerInv, sessionVars
  <2> QED
    BY <2>1, <2>2, <2>4 DEF IInv, PlayerInv
<1>2. ASSUME NEW p \in Packets, Unreadable(p) PROVE IInv'
  <2>1. PICK opcode \in Replies : Refuse(opcode)
    BY <1>2 DEF Unreadable, Replies
  <2> QED
    BY <2>1, NobodyIsSafe DEF Refuse, startVars
<1>0. ASSUME Abort PROVE IInv'
  BY <1>0, NobodyIsSafe DEF Abort, End, Replies
<1>9. ASSUME NEW p \in Packets, CannotDecrypt(p) \/ DatabaseThrows(p) \/ NowhereToStart(p) PROVE IInv'
  BY <1>0, <1>9 DEF CannotDecrypt, DatabaseThrows, NowhereToStart
<1>10. CASE DatabaseChanges /\ UNCHANGED <<accountVars, sessionVars>>
  <2>1. StartInv'
    BY <1>10, DatabaseKeepsStart DEF IInv
  <2>2. RowsInv' /\ reply' \in Replies
    BY <1>10 DEF IInv, RowsInv, accountVars, sessionVars
  <2>3. SumCount' = SumCount
    BY <1>10 DEF SumCount, DatabaseChanges
  <2>4. PlayerInv'
    BY <1>10, <2>3 DEF IInv, PlayerInv, DatabaseChanges, accountVars, sessionVars
  <2> QED
    BY <2>1, <2>2, <2>4 DEF IInv
<1>3. ASSUME NEW p \in Packets, SumsDiffer(p) PROVE IInv'
  <2>1. CASE Abort
    BY <1>0, <2>1
  <2>2. CASE \E opcode \in Replies : Refuse(opcode)
    BY <2>2, NobodyIsSafe DEF Refuse, startVars
  <2> QED
    BY <1>3, <2>1, <2>2 DEF SumsDiffer, Replies
<1>4. ASSUME NEW p \in Packets, Register(p) PROVE IInv'
  BY <1>4, RegisterIsSafe
<1>5. ASSUME NEW p \in Packets, LogIn(p) PROVE IInv'
  BY <1>5, LogInIsSafe
<1>6. CASE Leave
  BY <1>6, NobodyIsSafe DEF Leave, startVars, Replies
<1>7. CASE Kill
  BY <1>7, NobodyIsSafe DEF Kill, Replies
<1>8. CASE UNCHANGED vars
  <2>1. StartInv'
    BY <1>8, StartedStaysStarted DEF IInv, vars, startVars
  <2>2. RowsInv' /\ reply' \in Replies
    BY <1>8 DEF IInv, RowsInv, vars, accountVars, sessionVars
  <2>3. SumCount' = SumCount
    BY <1>8 DEF SumCount, vars, startVars
  <2>4. PlayerInv'
    BY <1>8, <2>3 DEF IInv, PlayerInv, vars, startVars, accountVars, sessionVars
  <2> QED
    BY <2>1, <2>2, <2>4 DEF IInv
<1> QED
  BY <1>1, <1>2, <1>3, <1>4, <1>5, <1>6, <1>7, <1>8, <1>9, <1>10 DEF Next

\* The invariant holds in every reachable state.
THEOREM AlwaysIInv == Spec => []IInv
<1>1. Init => IInv
  <2> SUFFICES ASSUME Init PROVE IInv
    OBVIOUS
  <2>1. /\ phase = "config" /\ mode = "unset" /\ next = 0 /\ stores = {} /\ described = {}
        /\ configFile \in Modes \cup {"unreadable", "none"}
        /\ settings \in SUBSET ConfigKeys /\ database \in {"works", "fails"}
        /\ cacheFiles \in SUBSET {"dat2", "idx255"} /\ keys \in {"none", "partly", "whole"}
        /\ indexFiles \in SUBSET IndexNumbers
        /\ tables \in UNION {[0 .. n - 1 -> Tables] : n \in 0 .. MaxArchives}
    BY DEF Init, StartInit, Unstarted
  <2>2. next \in 0 .. MaxArchives + 1
    BY <2>1, StartupAssumption DEF StartupAssumption
  <2>3. StartInv
    BY <2>1, <2>2 DEF StartInv, StartTypeOK, Running
  <2>4. rows = <<>> /\ registered = <<>> /\ player = Nobody /\ reply = "none"
    BY DEF Init, NoSession
  <2>5. Len(rows) = 0 /\ DOMAIN registered = {} /\ rows = [i \in 1 .. 0 |-> rows[i]]
    BY <2>4
  <2>6. RowsInv
    <3>1. 1 .. Len(rows) = {} /\ Len(rows) \in Nat
      BY <2>5
    <3> QED
      BY <2>5, <3>1 DEF RowsInv
  <2> QED
    BY <2>3, <2>4, <2>6 DEF IInv, PlayerInv, Replies
<1> QED
  BY <1>1, IInvStep, PTL DEF Spec


\* The name a row has is one that was registered.
LEMMA RowIsOfName ==
  ASSUME RowsInv, NEW i \in 1 .. Len(rows)
  PROVE  /\ rows[i].row.username \in DOMAIN registered /\ rows[i].id = i
         /\ DOMAIN rows[i].row = Columns
<1>1. PICK name \in DOMAIN registered : rows[i] = [id |-> i, row |-> Inserted(registered[name])]
  BY DEF RowsInv
<1>2. IsAccount(registered[name], name)
  BY DEF RowsInv
<1>3. rows[i].id = i /\ rows[i].row = Inserted(registered[name])
  BY <1>1
<1> QED
  BY <1>2, <1>3, RowsHaveNames, ReadAsWritten

\* Every variable stays in its range, for every cache and every client.
THEOREM LoginTypeOK == Spec => []TypeOK
<1>1. IInv => TypeOK
  <2> SUFFICES ASSUME IInv PROVE TypeOK
    OBVIOUS
  <2>1. \A i \in 1 .. Len(rows) : DOMAIN rows[i].row = Columns /\ rows[i].row.username \in Names
    BY RowIsOfName DEF IInv, RowsInv
  <2> QED
    BY <2>1 DEF IInv, StartInv, RowsInv, PlayerInv, Replies, TypeOK
<1> QED
  BY <1>1, AlwaysIInv, PTL

\* A server that serves has a store for every index file the main index has an
\* archive of, and no other, each with a good table: in a cache of any size,
\* with any files of it missing, and after any number of restarts.
THEOREM ServingIsComplete == Spec => []StoresAreComplete
<1>1. IInv => StoresAreComplete
  BY ServesComplete DEF IInv
<1> QED
  BY <1>1, AlwaysIInv, PTL

\* What was registered is kept as it was, in one row of its name, whenever the
\* process is killed and however often it starts again.
THEOREM AccountsAreKept == Spec => []AccountsKept
<1>1. IInv => AccountsKept
  <2> SUFFICES ASSUME IInv PROVE AccountsKept
    OBVIOUS
  <2>1. AccountsReadBack
    BY DEF IInv, PlayerInv, AccountsReadBack
  <2>2. {rows[i].row.username : i \in 1 .. Len(rows)} \subseteq DOMAIN registered
    BY RowIsOfName DEF IInv
  <2>3. DOMAIN registered \subseteq {rows[i].row.username : i \in 1 .. Len(rows)}
    BY DEF IInv, RowsInv
  <2>4. OneRowPerName
    BY <2>2, <2>3 DEF IInv, RowsInv, OneRowPerName
  <2> QED
    BY <2>1, <2>4 DEF AccountsKept
<1> QED
  BY <1>1, AlwaysIInv, PTL

\* Nobody plays an account with another password than the one it was
\* registered with, or with a cache that differs from the server's.
THEOREM OnlyOwnersPlay == Spec => []OwnersOnly
<1>1. IInv => OwnersOnly
  <2> SUFFICES ASSUME IInv, player # Nobody
               PROVE  /\ player.id # 0 => player.account.password[1] = registered[player.account.username].password[1]
                      /\ player.id # 0 => proof[1] = registered[player.account.username].password[1]
                      /\ \A i \in 0 .. SumCount - 1 : i \in stores /\ i \in proof[2]
    BY DEF OwnersOnly
  <2>1. \A i \in 0 .. SumCount - 1 : i \in stores /\ i \in proof[2]
    BY DEF IInv, PlayerInv
  <2>2. ASSUME player.id # 0
        PROVE  /\ player.account = registered[player.account.username]
               /\ proof[1] = player.account.password[1]
    BY <2>2 DEF IInv, PlayerInv
  <2> QED
    BY <2>1, <2>2
<1> QED
  BY <1>1, AlwaysIInv, PTL

\* No login ends a server whose cache has no gap, whose settings and keys are
\* all there, whose database works and whose accounts have numbers that fit.
THEOREM OnlySetupEverStops == Spec => OnlySetupStops
<1> DEFINE Stops == phase = "serving" /\ phase' = "aborted"
           Excused == \/ \E i \in 0 .. SumCount - 1 : i \notin stores
                      \/ settings # ConfigKeys \/ keys # "whole"
                      \/ database = "fails"
                      \/ \E i \in 1 .. Len(rows') : rows'[i].id > kMaxId
<1>1. IInv /\ [Next]_vars => [Stops => Excused]_vars
  <2> SUFFICES ASSUME IInv, Next, Stops PROVE Excused
    OBVIOUS
  <2> USE LoginAssumption DEF LoginAssumption
  <2>1. ASSUME NEW p, SumsDiffer(p) PROVE Excused
    <3>1. FirstFailing(p) \in 0 .. SumCount - 1
      BY <2>1, FirstFailingFails DEF SumsDiffer, IInv, StartInv
    <3>2. \A opcode : ~Refuse(opcode)
      BY DEF Refuse, startVars
    <3>3. FirstFailing(p) \notin stores
      BY <2>1, <3>2 DEF SumsDiffer
    <3> QED
      BY <3>1, <3>3
  <2> DEFINE Ordered == settings = ConfigKeys /\ keys = "whole"
  <2>2. ASSUME NEW p, NEW account, NEW id, Enter(p, account, id), Ordered PROVE id > kMaxId
    <3>1. "server" \in settings
      BY <2>2 DEF ConfigKeys
    <3>2. EntryThrows(id)
      BY <2>2 DEF Enter
    <3> QED
      BY <2>2, <3>1, <3>2 DEF EntryThrows
  <2>3. ASSUME NEW p \in Packets, Register(p), Ordered PROVE Excused
    <3> DEFINE id == IF KnownMode THEN Len(rows) + 1 ELSE 0
    <3>1. PICK account : /\ rows' = IF KnownMode THEN Insert(rows, account) ELSE rows
                         /\ Enter(p, account, id)
      BY <2>3 DEF Register
    <3>2. id > kMaxId
      BY <2>2, <2>3, <3>1
    <3>3. KnownMode /\ rows' = Insert(rows, account) /\ Len(rows) + 1 > kMaxId
      BY <3>1, <3>2
    <3>4. Len(rows) \in Nat /\ rows = [i \in 1 .. Len(rows) |-> rows[i]]
      BY DEF IInv, RowsInv
    <3> DEFINE new == [id |-> Len(rows) + 1, row |-> Inserted(account)]
    <3>5. rows' = Append(rows, new)
      BY <3>3 DEF Insert
    <3>6. new.id = Len(rows) + 1
      OBVIOUS
    <3> HIDE DEF new
    <3>7. Len(rows') = Len(rows) + 1 /\ rows'[Len(rows) + 1] = new
      BY <3>4, <3>5, RowsAppended
    <3>8. Len(rows) + 1 \in 1 .. Len(rows')
      BY <3>4, <3>7
    <3> QED
      BY <3>3, <3>6, <3>7, <3>8
  <2>4. ASSUME NEW p \in Packets, LogIn(p), Ordered PROVE Excused
    <3> DEFINE i == CHOOSE i \in Found(p.name) : TRUE
               r == rows[i]
    <3>1. i \in Found(p.name) /\ rows' = rows
      BY <2>4 DEF LogIn, accountVars
    <3>2. \A opcode : ~Refuse(opcode)
      BY DEF Refuse, startVars
    <3>3. Enter(p, Selected(r.row), r.id)
      BY <2>4, <3>2 DEF LogIn
    <3>4. i \in 1 .. Len(rows)
      BY <3>1, FoundIsOwn DEF IInv
    <3> HIDE DEF i
    <3>5. r.id > kMaxId
      BY <2>2, <2>4, <3>3
    <3> QED
      BY <3>1, <3>4, <3>5
  <2>5. CASE Start \/ Restart
    BY <2>5 DEF Start, InitConfig, InitDatabase, InitCache, OpenIndex, PopulateIndex, Serve, Restart
  <2>6. ASSUME NEW p \in Packets, Unreadable(p) PROVE FALSE
    BY <2>6 DEF Unreadable, Refuse, startVars
  <2>7. CASE Leave \/ Kill
    BY <2>7 DEF Leave, Kill, startVars
  <2>8. ASSUME NEW p \in Packets, CannotDecrypt(p) \/ NowhereToStart(p) PROVE Excused
    BY <2>8 DEF CannotDecrypt, NowhereToStart, ConfigKeys
  <2>9. ASSUME NEW p \in Packets, DatabaseThrows(p) PROVE Excused
    BY <2>9 DEF DatabaseThrows
  <2>10. CASE DatabaseChanges
    BY <2>10 DEF DatabaseChanges
  <2>11. CASE Ordered
    BY <2>1, <2>3, <2>4, <2>5, <2>6, <2>7, <2>8, <2>9, <2>10, <2>11 DEF Next
  <2> QED
    BY <2>11
<1> QED
  BY <1>1, AlwaysIInv, PTL DEF Spec, OnlySetupStops

-----------------------------------------------------------------------------
(* What a player who has logged in is sent *)

\* Every packet there is: its type, its size, and what it tells.
Types ==
  {"MapRegion", "InterfaceWindowPane", "InterfaceTab", "InterfaceComponentText", "InterfaceComponentSetting",
   "InterfaceHide", "PlayerOption", "RunEnergy", "ConfigFile1", "ItemLook", "CustomPacket161", "Message", "ConfigGlobal1",
   "ConfigGlobal2", "Config1", "Config2", "ConfigGameBarOther", "ConfigGameBarPrivate", "PlayerSkill"}
WirePackets ==
  [type : Types, size : Nat,
   about : {<<>>} \cup {<<id>> : id \in Nat} \cup (Nat \X Nat \X Nat) \cup (Nat \X Seq(Nat) \X Seq(Nat))]

\* The size of a packet that states none.
FixedSize ==
  [InterfaceWindowPane |-> 19, InterfaceTab |-> 23, InterfaceComponentSetting |-> 12, InterfaceHide |-> 5, RunEnergy |-> 1,
   ConfigFile1 |-> 3, ItemLook |-> 1, CustomPacket161 |-> 1, ConfigGlobal1 |-> 3, ConfigGlobal2 |-> 6, Config1 |-> 3,
   Config2 |-> 6, ConfigGameBarOther |-> 2, ConfigGameBarPrivate |-> 1, PlayerSkill |-> 6]

\* A size that can be read from the header, when the name leaves room for it.
Fits(type, size) ==
  /\ type \in Types
  /\ LengthBytes(type) = 0 => size = FixedSize[type]
  /\ type = "PlayerOption" => size < 256
  /\ type = "Message" => (nameLength <= kLongestName => size < 256)
  /\ type \in {"MapRegion", "InterfaceComponentText"} => size < 65536

\* A packet the client can read.
Sound == {p \in WirePackets : Fits(p.type, p.size) /\ (p.type \in TellsConfig => p.about[2] = p.about[3])}

\* A code is its type's alone.
LEMMA CodesDiffer ==
  ASSUME NEW s \in Types, NEW t \in Types, CodeBytes(s) = CodeBytes(t)
  PROVE  s = t
<1>1. /\ Code["MapRegion"] = 42 /\ Code["InterfaceWindowPane"] = 39 /\ Code["InterfaceTab"] = 14
      /\ Code["InterfaceComponentText"] = 135 /\ Code["InterfaceComponentSetting"] = 40 /\ Code["InterfaceHide"] = 112
      /\ Code["PlayerOption"] = 118 /\ Code["RunEnergy"] = 25 /\ Code["ConfigFile1"] = 111 /\ Code["ItemLook"] = 159
      /\ Code["CustomPacket161"] = 161 /\ Code["Message"] = 136 /\ Code["ConfigGlobal1"] = 154
      /\ Code["ConfigGlobal2"] = 63 /\ Code["Config1"] = 110 /\ Code["Config2"] = 56 /\ Code["ConfigGameBarOther"] = 89
      /\ Code["ConfigGameBarPrivate"] = 75 /\ Code["PlayerSkill"] = 146
  BY DEF Code
<1>2. Code[s] \in Nat /\ Code[t] \in Nat
  BY <1>1 DEF Types
<1>3. Code[s] = Code[t]
  BY <1>2 DEF CodeBytes
<1> QED
  BY <1>1, <1>3 DEF Types

\* Readable packets in turn are readable packets.
LEMMA SoundConcat ==
  ASSUME NEW s \in Seq(Sound), NEW u \in Seq(Sound)
  PROVE  s \o u \in Seq(Sound)
BY ConcatProperties

\* A packet of a size that fits it, and that tells no configuration.
LEMMA SoundOne ==
  ASSUME NEW type \in Types, NEW size \in Nat, Fits(type, size), type \notin TellsConfig,
         NEW about, about \in {<<>>} \cup {<<id>> : id \in Nat} \cup (Nat \X Nat \X Nat)
  PROVE  Packet(type, size, about) \in Sound
BY DEF Packet, Sound, WirePackets

\* A configuration that is sent whole.
LEMMA SoundConfig ==
  ASSUME NEW type \in TellsConfig, NEW size \in Nat, Fits(type, size), NEW id \in Nat, NEW v \in Seq(Nat)
  PROVE  Packet(type, size, <<id, v, v>>) \in Sound
<1>1. type \in Types
  BY DEF TellsConfig, Types
<1>2. <<id, v, v>> \in Nat \X Seq(Nat) \X Seq(Nat) /\ <<id, v, v>>[2] = <<id, v, v>>[3]
  OBVIOUS
<1> QED
  BY <1>1, <1>2 DEF Packet, Sound, WirePackets

\* The slots of the two panes and what is opened in each; the chat is opened in
\* the interface 752 of either.
ResizableSlots ==
  {<<21, 752>>, <<22, 751>>, <<15, 745>>, <<25, 754>>, <<195, 748>>, <<196, 749>>, <<197, 750>>, <<198, 747>>,
   <<119, 1139>>, <<111, 884>>, <<112, 3002>>, <<113, 320>>, <<114, 3002>>, <<115, 679>>, <<116, 387>>, <<117, 271>>,
   <<120, 550>>, <<121, 1109>>, <<122, 1110>>, <<123, 261>>, <<124, 590>>, <<125, 187>>, <<126, 34>>, <<129, 182>>,
   <<26, 3039>>}
FixedSlots ==
  {<<161, 752>>, <<37, 751>>, <<23, 745>>, <<25, 754>>, <<155, 747>>, <<151, 748>>, <<152, 749>>, <<153, 750>>,
   <<9, 167>>, <<177, 271>>, <<176, 387>>, <<175, 679>>, <<174, 3002>>, <<179, 1139>>, <<181, 1109>>, <<182, 1110>>,
   <<180, 550>>, <<185, 187>>, <<186, 34>>, <<189, 182>>, <<173, 320>>, <<184, 590>>, <<183, 261>>, <<172, 3002>>,
   <<171, 884>>, <<11, 3039>>}
Slots(pane) == IF pane = kResizablePane THEN ResizableSlots ELSE IF pane = kFixedPane THEN FixedSlots ELSE {}
InLayout(pane, tab) == tab = <<752, 9, 137>> \/ \E e \in Slots(pane) : tab = <<pane, e[1], e[2]>>

\* No slot of a pane stands for two interfaces.
LEMMA SlotsOnce ==
  ASSUME NEW pane, NEW slot, NEW i, NEW j, <<slot, i>> \in Slots(pane), <<slot, j>> \in Slots(pane)
  PROVE  i = j
<1>1. CASE pane = kResizablePane
  BY <1>1 DEF Slots, ResizableSlots
<1>2. CASE pane # kResizablePane /\ pane = kFixedPane
  BY <1>2 DEF Slots, FixedSlots
<1> QED
  BY <1>1, <1>2 DEF Slots

\* An interface is open in front of the i-th packet of s, when those of open
\* are open in front of the first.
OpenAt(s, i, open, interface) ==
  \/ interface \in open
  \/ \E k \in 1 .. i - 1 : s[k].type = "InterfaceTab" /\ s[k].about[3] = interface

\* The packets of s build on what is open: they only fill the slots of the
\* pane, and only what is open in front of them is filled or changed.
Plays(s, pane, open) ==
  \A i \in 1 .. Len(s) :
    /\ s[i].type # "InterfaceWindowPane"
    /\ s[i].type = "InterfaceTab" =>
         InLayout(pane, s[i].about) /\ (s[i].about[1] = pane \/ OpenAt(s, i, open, s[i].about[1]))
    /\ s[i].type \in Touches => OpenAt(s, i, open, s[i].about[1])

\* What more is open does no harm.
LEMMA PlaysWithMore ==
  ASSUME NEW s, NEW pane, NEW open, NEW more, open \subseteq more, Plays(s, pane, open)
  PROVE  Plays(s, pane, more)
BY DEF Plays, OpenAt

\* A list behind another finds open what the first opened.
LEMMA PlaysConcat ==
  ASSUME NEW s \in Seq(WirePackets), NEW u \in Seq(WirePackets), NEW pane, NEW open, NEW between,
         Plays(s, pane, open), Plays(u, pane, between),
         \A id \in between : OpenAt(s, Len(s) + 1, open, id)
  PROVE  Plays(s \o u, pane, open)
<1> DEFINE m == Len(s)
           n == Len(u)
           c == s \o u
<1>1. m \in Nat
  BY ONLY s \in Seq(WirePackets)
<1>2. n \in Nat
  BY ONLY u \in Seq(WirePackets)
<1>3. Len(c) = m + n /\ \A i \in 1 .. m + n : c[i] = IF i <= m THEN s[i] ELSE u[i - m]
  BY ONLY s \in Seq(WirePackets), u \in Seq(WirePackets), ConcatProperties
<1> HIDE DEF m, n, c
<1>4. \A i \in 1 .. m : c[i] = s[i]
  BY ONLY <1>1, <1>2, <1>3
<1>5. ASSUME NEW i \in 1 .. m, NEW id, OpenAt(s, i, open, id)
      PROVE  OpenAt(c, i, open, id)
  <2>1. \A k \in 1 .. i - 1 : k \in 1 .. m
    BY ONLY <1>1, i \in 1 .. m
  <2> QED
    BY ONLY <1>4, <1>5, <2>1 DEF OpenAt
<1>6. ASSUME NEW i \in 1 .. n, NEW id, OpenAt(u, i, between, id)
      PROVE  OpenAt(c, m + i, open, id)
  <2>1. CASE id \in between
    <3>1. OpenAt(s, m + 1, open, id)
      BY <2>1 DEF m
    <3>2. \A k \in 1 .. (m + 1) - 1 : k \in 1 .. m /\ k \in 1 .. (m + i) - 1
      BY ONLY <1>1, i \in 1 .. n
    <3> QED
      BY ONLY <1>4, <3>1, <3>2 DEF OpenAt
  <2>2. CASE \E k \in 1 .. i - 1 : u[k].type = "InterfaceTab" /\ u[k].about[3] = id
    <3>1. PICK k \in 1 .. i - 1 : u[k].type = "InterfaceTab" /\ u[k].about[3] = id
      BY <2>2
    <3>2. m + k \in 1 .. (m + i) - 1 /\ m + k \in 1 .. m + n /\ ~ (m + k <= m) /\ (m + k) - m = k
      BY ONLY <1>1, <1>2, i \in 1 .. n, k \in 1 .. i - 1
    <3>3. c[m + k] = u[k]
      BY ONLY <1>3, <3>2
    <3> QED
      BY ONLY <3>1, <3>2, <3>3 DEF OpenAt
  <2> QED
    BY ONLY <1>6, <2>1, <2>2 DEF OpenAt
<1>7. ASSUME NEW i \in 1 .. m + n
      PROVE  /\ c[i].type # "InterfaceWindowPane"
             /\ c[i].type = "InterfaceTab" =>
                  InLayout(pane, c[i].about) /\ (c[i].about[1] = pane \/ OpenAt(c, i, open, c[i].about[1]))
             /\ c[i].type \in Touches => OpenAt(c, i, open, c[i].about[1])
  <2>1. CASE i \in 1 .. m
    <3>1. c[i] = s[i]
      BY ONLY <1>4, <2>1
    <3>2. /\ s[i].type # "InterfaceWindowPane"
          /\ s[i].type = "InterfaceTab" =>
               InLayout(pane, s[i].about) /\ (s[i].about[1] = pane \/ OpenAt(s, i, open, s[i].about[1]))
          /\ s[i].type \in Touches => OpenAt(s, i, open, s[i].about[1])
      BY <2>1 DEF Plays, m
    <3> QED
      BY ONLY <1>5, <2>1, <3>1, <3>2
  <2>2. CASE i \notin 1 .. m
    <3>1. PICK k \in 1 .. n : i = m + k
      <4>1. i - m \in 1 .. n /\ i = m + (i - m)
        BY ONLY <1>1, <1>2, <2>2, i \in 1 .. m + n
      <4> QED
        BY ONLY <4>1
    <3>2. ~ (m + k <= m) /\ (m + k) - m = k
      BY ONLY <1>1, <1>2, k \in 1 .. n
    <3>3. c[i] = u[k]
      BY ONLY <1>3, <3>1, <3>2, i \in 1 .. m + n
    <3>4. /\ u[k].type # "InterfaceWindowPane"
          /\ u[k].type = "InterfaceTab" =>
               InLayout(pane, u[k].about) /\ (u[k].about[1] = pane \/ OpenAt(u, k, between, u[k].about[1]))
          /\ u[k].type \in Touches => OpenAt(u, k, between, u[k].about[1])
      BY DEF Plays, n
    <3> QED
      BY ONLY <1>6, <3>1, <3>3, <3>4, k \in 1 .. n
  <2> QED
    BY ONLY <2>1, <2>2
<1> QED
  BY ONLY <1>3, <1>7 DEF Plays, c

\* An interface is opened by one of the packets of s.
Opens(s, interface) == \E k \in 1 .. Len(s) : s[k].type = "InterfaceTab" /\ s[k].about[3] = interface

\* Readable packets that build on nothing but themselves and open the
\* interfaces of some set.
Builds(pane, interfaces) == {s \in Seq(Sound) : Plays(s, pane, {}) /\ \A id \in interfaces : Opens(s, id)}

\* What a part of a list opens, the whole opens.
LEMMA OpensConcat ==
  ASSUME NEW s \in Seq(WirePackets), NEW u \in Seq(WirePackets), NEW id, Opens(s, id) \/ Opens(u, id)
  PROVE  Opens(s \o u, id)
<1> DEFINE m == Len(s)
           n == Len(u)
           c == s \o u
<1>1. m \in Nat /\ n \in Nat
  BY LenProperties
<1>3. Len(c) = m + n /\ \A i \in 1 .. m + n : c[i] = IF i <= m THEN s[i] ELSE u[i - m]
  BY ONLY s \in Seq(WirePackets), u \in Seq(WirePackets), ConcatProperties
<1>4. (\E k \in 1 .. m : s[k].type = "InterfaceTab" /\ s[k].about[3] = id)
      \/ (\E k \in 1 .. n : u[k].type = "InterfaceTab" /\ u[k].about[3] = id)
  BY DEF Opens
<1> HIDE DEF m, n, c
<1>5. CASE \E k \in 1 .. m : s[k].type = "InterfaceTab" /\ s[k].about[3] = id
  <2>1. PICK k \in 1 .. m : s[k].type = "InterfaceTab" /\ s[k].about[3] = id
    BY <1>5
  <2>2. k \in 1 .. m + n /\ k <= m
    BY ONLY <1>1, k \in 1 .. m
  <2> QED
    BY ONLY <1>3, <2>1, <2>2 DEF Opens, c
<1>6. CASE \E k \in 1 .. n : u[k].type = "InterfaceTab" /\ u[k].about[3] = id
  <2>1. PICK k \in 1 .. n : u[k].type = "InterfaceTab" /\ u[k].about[3] = id
    BY <1>6
  <2>2. m + k \in 1 .. m + n /\ ~ (m + k <= m) /\ (m + k) - m = k
    BY ONLY <1>1, k \in 1 .. n
  <2>3. c[m + k] = u[k]
    BY ONLY <1>3, <2>2
  <2> QED
    BY ONLY <1>3, <2>1, <2>2, <2>3 DEF Opens, c
<1> QED
  BY ONLY <1>4, <1>5, <1>6

\* Readable packets are packets.
LEMMA SoundArePackets ==
  ASSUME NEW s \in Seq(Sound)
  PROVE  s \in Seq(WirePackets)
<1>1. Sound \subseteq WirePackets
  BY DEF Sound
<1> QED
  BY ONLY <1>1, s \in Seq(Sound), SeqMonotonic

\* A list goes on with one that builds on what it opened.
LEMMA BuildsWith ==
  ASSUME NEW pane, NEW opened, NEW s \in Builds(pane, opened), NEW u \in Seq(Sound), NEW more,
         Plays(u, pane, opened), \A id \in more : Opens(u, id)
  PROVE  s \o u \in Builds(pane, opened \cup more)
<1>1. s \in Seq(Sound) /\ Plays(s, pane, {}) /\ \A id \in opened : Opens(s, id)
  BY DEF Builds
<1>2. s \in Seq(WirePackets) /\ u \in Seq(WirePackets)
  BY <1>1, SoundArePackets
<1>3. \A id \in opened : OpenAt(s, Len(s) + 1, {}, id)
  <2>1. Len(s) \in Nat
    BY <1>1
  <2>2. (Len(s) + 1) - 1 = Len(s)
    BY ONLY <2>1
  <2> QED
    BY ONLY <1>1, <2>2 DEF OpenAt, Opens
<1>4. Plays(s \o u, pane, {})
  BY <1>1, <1>2, <1>3, PlaysConcat
<1>5. \A id \in opened \cup more : Opens(s \o u, id)
  BY <1>1, <1>2, OpensConcat
<1>6. s \o u \in Seq(Sound)
  BY <1>1, SoundConcat
<1> QED
  BY ONLY <1>4, <1>5, <1>6 DEF Builds

\* Two lists that build on themselves do so one behind the other.
LEMMA BuildsBoth ==
  ASSUME NEW pane, NEW opened, NEW more, NEW s \in Builds(pane, opened), NEW u \in Builds(pane, more)
  PROVE  s \o u \in Builds(pane, opened \cup more)
<1>1. u \in Seq(Sound) /\ Plays(u, pane, {}) /\ \A id \in more : Opens(u, id)
  BY DEF Builds
<1>2. Plays(u, pane, opened)
  BY <1>1, PlaysWithMore
<1> QED
  BY <1>1, <1>2, BuildsWith

\* A list that is known to open more is known to open less.
LEMMA BuildsLess ==
  ASSUME NEW pane, NEW opened, NEW fewer, fewer \subseteq opened, NEW s \in Builds(pane, opened)
  PROVE  s \in Builds(pane, fewer)
BY DEF Builds

\* A packet that opens or changes no interface builds on nothing.
LEMMA BuildsOther ==
  ASSUME NEW pane, NEW p \in Sound, p.type \notin Touches \cup {"InterfaceTab", "InterfaceWindowPane"}
  PROVE  <<p>> \in Builds(pane, {})
<1>1. <<p>> \in Seq(Sound) /\ Len(<<p>>) = 1 /\ <<p>>[1] = p
  OBVIOUS
<1>2. \A i \in 1 .. 1 : i = 1
  OBVIOUS
<1>3. Plays(<<p>>, pane, {})
  BY ONLY <1>1, <1>2, p.type \notin Touches \cup {"InterfaceTab", "InterfaceWindowPane"} DEF Plays
<1> QED
  BY ONLY <1>1, <1>3 DEF Builds

\* A packet that changes an interface builds on that interface.
LEMMA PlaysTouch ==
  ASSUME NEW pane, NEW id \in Nat, NEW type \in Touches, NEW size \in Nat, Fits(type, size)
  PROVE  /\ <<Packet(type, size, <<id>>)>> \in Seq(Sound)
         /\ Plays(<<Packet(type, size, <<id>>)>>, pane, {id})
<1> DEFINE p == Packet(type, size, <<id>>)
<1>1. type \in Types /\ type \notin TellsConfig /\ type # "InterfaceTab" /\ type # "InterfaceWindowPane"
  BY DEF Touches, Types, TellsConfig
<1>2. p \in Sound
  BY <1>1, SoundOne
<1>3. p.type = type /\ p.about[1] = id
  BY DEF Packet
<1> HIDE DEF p
<1>4. <<p>> \in Seq(Sound) /\ Len(<<p>>) = 1 /\ <<p>>[1] = p
  BY ONLY <1>2
<1>5. \A i \in 1 .. 1 : i = 1
  OBVIOUS
<1>6. Plays(<<p>>, pane, {id})
  BY ONLY <1>1, <1>3, <1>4, <1>5 DEF Plays, OpenAt
<1> QED
  BY ONLY <1>4, <1>6 DEF p

\* A tab in a slot of the pane builds on nothing and opens its interface.
LEMMA SoundTab ==
  ASSUME NEW pane \in Nat, NEW slot \in Nat, NEW id \in Nat
  PROVE  /\ TabPacket(pane, slot, id) \in Sound
         /\ TabPacket(pane, slot, id).type = "InterfaceTab"
         /\ TabPacket(pane, slot, id).about = <<pane, slot, id>>
<1>1. Fits("InterfaceTab", 23)
  BY DEF Fits, Types, FixedSize, LengthBytes
<1>2. <<pane, slot, id>> \in Nat \X Nat \X Nat
  OBVIOUS
<1>3. "InterfaceTab" \in Types /\ "InterfaceTab" \notin TellsConfig
  BY DEF Types, TellsConfig
<1>4. Packet("InterfaceTab", 23, <<pane, slot, id>>) \in Sound
  BY <1>1, <1>2, <1>3, SoundOne
<1>5. TabPacket(pane, slot, id) = Packet("InterfaceTab", 23, <<pane, slot, id>>)
  BY DEF TabPacket
<1> QED
  BY <1>4, <1>5 DEF Packet

\* Tabs in slots of the pane build on nothing and open their interfaces.
LEMMA BuildsTabs ==
  ASSUME NEW pane \in Nat, NEW pairs \in Seq(Nat \X Nat),
         \A i \in 1 .. Len(pairs) : <<pairs[i][1], pairs[i][2]>> \in Slots(pane)
  PROVE  TabsOf(pane, pairs) \in Builds(pane, {pairs[i][2] : i \in 1 .. Len(pairs)})
<1> DEFINE n == Len(pairs)
           s == TabsOf(pane, pairs)
<1>1. n \in Nat /\ DOMAIN pairs = 1 .. n /\ \A i \in 1 .. n : pairs[i] \in Nat \X Nat
  BY LenProperties, ElementOfSeq
<1>2. s = [i \in 1 .. n |-> TabPacket(pane, pairs[i][1], pairs[i][2])]
  BY <1>1 DEF TabsOf
<1>3. \A i \in 1 .. n : pairs[i][1] \in Nat /\ pairs[i][2] \in Nat /\ <<pairs[i][1], pairs[i][2]>> \in Slots(pane)
  BY <1>1
<1> HIDE DEF n, s
<1>4. \A i \in 1 .. n : /\ s[i] \in Sound /\ s[i].type = "InterfaceTab"
                        /\ s[i].about = <<pane, pairs[i][1], pairs[i][2]>>
  BY ONLY <1>2, <1>3, SoundTab, pane \in Nat
<1>5. s \in Seq(Sound) /\ Len(s) = n
  <2>1. s \in [1 .. n -> Sound] /\ DOMAIN s = 1 .. n
    BY ONLY <1>2, <1>4
  <2>2. s \in Seq(Sound)
    <3>1. s \in UNION {[1 .. k -> Sound] : k \in Nat}
      BY ONLY <1>1, <2>1
    <3>2. Seq(Sound) = UNION {[1 .. k -> Sound] : k \in Nat}
      BY ONLY SeqDef
    <3> QED
      BY ONLY <3>1, <3>2
  <2> QED
    BY ONLY <1>1, <2>1, <2>2, LenProperties
<1>6. "InterfaceTab" \notin Touches
  BY DEF Touches
<1>7. \A i \in 1 .. n : s[i].about[1] = pane /\ s[i].about[2] = pairs[i][1] /\ s[i].about[3] = pairs[i][2]
  BY ONLY <1>4
<1>8. \A i \in 1 .. n : InLayout(pane, s[i].about)
  <2>1. ASSUME NEW i \in 1 .. n
        PROVE  \E e \in Slots(pane) : s[i].about = <<pane, e[1], e[2]>>
    <3>1. <<pairs[i][1], pairs[i][2]>>[1] = pairs[i][1] /\ <<pairs[i][1], pairs[i][2]>>[2] = pairs[i][2]
      OBVIOUS
    <3> QED
      BY ONLY <1>3, <1>4, <3>1, i \in 1 .. n
  <2> QED
    BY ONLY <2>1 DEF InLayout
<1>9. Plays(s, pane, {})
  BY ONLY <1>4, <1>5, <1>6, <1>7, <1>8 DEF Plays
<1>10. \A id \in {pairs[i][2] : i \in 1 .. n} : Opens(s, id)
  BY ONLY <1>4, <1>5, <1>7 DEF Opens
<1> QED
  BY ONLY <1>5, <1>9, <1>10 DEF Builds, n, s

\* The same of one tab.
LEMMA BuildsTab ==
  ASSUME NEW pane \in Nat, NEW slot \in Nat, NEW id \in Nat, <<slot, id>> \in Slots(pane)
  PROVE  TabIn(pane, slot, id) \in Builds(pane, {id})
<1> DEFINE p == TabPacket(pane, slot, id)
           s == <<p>>
<1>1. p \in Sound /\ p.type = "InterfaceTab" /\ p.about = <<pane, slot, id>>
  BY SoundTab
<1>2. TabIn(pane, slot, id) = s
  BY DEF TabIn
<1> HIDE DEF p
<1>3. s \in Seq(Sound) /\ Len(s) = 1 /\ s[1] = p
  BY ONLY <1>1
<1> HIDE DEF s
<1>4. \A i \in 1 .. 1 : i = 1
  OBVIOUS
<1>5. p.about[1] = pane /\ p.about[2] = slot /\ p.about[3] = id
  BY ONLY <1>1
<1>6. InLayout(pane, p.about)
  <2>1. <<slot, id>>[1] = slot /\ <<slot, id>>[2] = id
    OBVIOUS
  <2>2. \E e \in Slots(pane) : p.about = <<pane, e[1], e[2]>>
    BY ONLY <1>1, <2>1, <<slot, id>> \in Slots(pane)
  <2> QED
    BY ONLY <2>2 DEF InLayout
<1>7. "InterfaceTab" \notin Touches
  BY DEF Touches
<1>8. Plays(s, pane, {})
  BY ONLY <1>1, <1>3, <1>4, <1>5, <1>6, <1>7 DEF Plays
<1>9. 1 \in 1 .. 1
  OBVIOUS
<1>10. Opens(s, id)
  BY ONLY <1>1, <1>3, <1>5, <1>9 DEF Opens
<1> QED
  BY ONLY <1>2, <1>3, <1>8, <1>10 DEF Builds

\* A list goes on with one that builds on nothing.
LEMMA BuildsThen ==
  ASSUME NEW pane, NEW opened, NEW more, NEW s \in Builds(pane, opened), NEW u \in Builds(pane, more)
  PROVE  s \o u \in Builds(pane, opened)
<1>1. s \o u \in Builds(pane, opened \cup more)
  BY BuildsBoth
<1>2. opened \subseteq opened \cup more
  OBVIOUS
<1> QED
  BY ONLY <1>1, <1>2, BuildsLess

\* A packet of a fixed size that tells nothing.
LEMMA BuildsSimple ==
  ASSUME NEW pane, NEW type \in Types \ (Touches \cup TellsConfig \cup {"InterfaceTab", "InterfaceWindowPane"}),
         NEW size \in Nat, Fits(type, size)
  PROVE  <<Packet(type, size, <<>>)>> \in Builds(pane, {})
<1>1. Packet(type, size, <<>>) \in Sound
  BY SoundOne
<1>2. Packet(type, size, <<>>).type = type
  BY DEF Packet
<1> QED
  BY ONLY <1>1, <1>2, BuildsOther, type \in Types \ (Touches \cup TellsConfig \cup {"InterfaceTab", "InterfaceWindowPane"})

\* A configuration: a value that is sent in a byte is one.
LEMMA BuildsConfig ==
  ASSUME NEW pane, NEW id \in Nat, NEW v \in Nat \X Nat \X Nat \X Nat
  PROVE  /\ SendConfig(id, v) \in Builds(pane, {})
         /\ SendGlobalConfig(id, v) \in Builds(pane, {})
         /\ FitsByte(v) => SendFileConfig(id, v) \in Builds(pane, {})
<1>1. v \in Seq(Nat)
  <2>1. v[1] \in Nat /\ v[2] \in Nat /\ v[3] \in Nat /\ v[4] \in Nat /\ v = <<v[1], v[2], v[3], v[4]>>
    OBVIOUS
  <2>2. <<v[1], v[2], v[3], v[4]>> \in Seq(Nat)
    BY ONLY <2>1
  <2> QED
    BY ONLY <2>1, <2>2
<1>2. FitsByte(v) => AsByte(v) = v
  BY DEF FitsByte, AsByte
<1>3. ASSUME NEW type \in TellsConfig, NEW size \in Nat, Fits(type, size)
      PROVE  <<Packet(type, size, <<id, v, v>>)>> \in Builds(pane, {})
  <2>1. Packet(type, size, <<id, v, v>>) \in Sound
    BY <1>1, <1>3, SoundConfig
  <2>2. Packet(type, size, <<id, v, v>>).type = type
    BY DEF Packet
  <2>3. type \notin Touches \cup {"InterfaceTab", "InterfaceWindowPane"}
    BY DEF TellsConfig, Touches
  <2> QED
    BY ONLY <2>1, <2>2, <2>3, BuildsOther
<1>4. Fits("Config1", 3) /\ Fits("ConfigGlobal1", 3) /\ Fits("ConfigFile1", 3)
      /\ Fits("Config2", 6) /\ Fits("ConfigGlobal2", 6)
  BY DEF Fits, Types, LengthBytes, FixedSize
<1>5. "Config1" \in TellsConfig /\ "Config2" \in TellsConfig /\ "ConfigFile1" \in TellsConfig
      /\ "ConfigGlobal1" \in TellsConfig /\ "ConfigGlobal2" \in TellsConfig
  BY DEF TellsConfig
<1>6. SendConfig(id, v) \in Builds(pane, {})
  BY <1>2, <1>3, <1>4, <1>5 DEF SendConfig
<1>7. SendGlobalConfig(id, v) \in Builds(pane, {})
  BY <1>2, <1>3, <1>4, <1>5 DEF SendGlobalConfig
<1>8. FitsByte(v) => SendFileConfig(id, v) \in Builds(pane, {})
  BY <1>2, <1>3, <1>4, <1>5 DEF SendFileConfig
<1> QED
  BY ONLY <1>6, <1>7, <1>8

\* A tab goes into the slot of the player's layout.
LEMMA BuildsSendTab ==
  ASSUME NEW resizable \in Nat, NEW fixed \in Nat, NEW id \in Nat,
         <<resizable, id>> \in ResizableSlots, <<fixed, id>> \in FixedSlots
  PROVE  SendTab(resizable, fixed, id) \in Builds(Pane, {id})
<1>1. CASE IsResizable
  BY <1>1, BuildsTab DEF SendTab, Pane, Slots, kResizablePane
<1>2. CASE ~ IsResizable
  <2>1. Pane = kFixedPane /\ kFixedPane \in Nat /\ Slots(Pane) = FixedSlots
    BY <1>2 DEF Pane, Slots, kResizablePane, kFixedPane
  <2> QED
    BY <1>2, <2>1, BuildsTab DEF SendTab
<1> QED
  BY ONLY <1>1, <1>2

\* The tabs with nothing in them that a packet changes.
LEMMA BuildsSingleTabs ==
  /\ PrayerBook \in Builds(Pane, {271}) /\ Equipment \in Builds(Pane, {387}) /\ Inventory \in Builds(Pane, {679})
  /\ Quests \in Builds(Pane, {3002}) /\ TaskSystem \in Builds(Pane, {3002}) /\ Skills \in Builds(Pane, {320})
  /\ Settings \in Builds(Pane, {261}) /\ Emotes \in Builds(Pane, {590}) /\ Timer \in Builds(Pane, {3039})
<1>1. PrayerBook \in Builds(Pane, {271})
  <2>1. <<117, 271>> \in ResizableSlots /\ <<177, 271>> \in FixedSlots
    BY DEF ResizableSlots, FixedSlots
  <2> QED
    BY <2>1, BuildsSendTab DEF PrayerBook
<1>2. Equipment \in Builds(Pane, {387})
  <2>1. <<116, 387>> \in ResizableSlots /\ <<176, 387>> \in FixedSlots
    BY DEF ResizableSlots, FixedSlots
  <2> QED
    BY <2>1, BuildsSendTab DEF Equipment
<1>3. Inventory \in Builds(Pane, {679})
  <2>1. <<115, 679>> \in ResizableSlots /\ <<175, 679>> \in FixedSlots
    BY DEF ResizableSlots, FixedSlots
  <2> QED
    BY <2>1, BuildsSendTab DEF Inventory
<1>4. Quests \in Builds(Pane, {3002})
  <2>1. <<114, 3002>> \in ResizableSlots /\ <<174, 3002>> \in FixedSlots
    BY DEF ResizableSlots, FixedSlots
  <2> QED
    BY <2>1, BuildsSendTab DEF Quests
<1>5. TaskSystem \in Builds(Pane, {3002})
  <2>1. <<112, 3002>> \in ResizableSlots /\ <<172, 3002>> \in FixedSlots
    BY DEF ResizableSlots, FixedSlots
  <2> QED
    BY <2>1, BuildsSendTab DEF TaskSystem
<1>6. Skills \in Builds(Pane, {320})
  <2>1. <<113, 320>> \in ResizableSlots /\ <<173, 320>> \in FixedSlots
    BY DEF ResizableSlots, FixedSlots
  <2> QED
    BY <2>1, BuildsSendTab DEF Skills
<1>7. Settings \in Builds(Pane, {261})
  <2>1. <<123, 261>> \in ResizableSlots /\ <<183, 261>> \in FixedSlots
    BY DEF ResizableSlots, FixedSlots
  <2> QED
    BY <2>1, BuildsSendTab DEF Settings
<1>8. Emotes \in Builds(Pane, {590})
  <2>1. <<124, 590>> \in ResizableSlots /\ <<184, 590>> \in FixedSlots
    BY DEF ResizableSlots, FixedSlots
  <2> QED
    BY <2>1, BuildsSendTab DEF Emotes
<1>9. Timer \in Builds(Pane, {3039})
  <2>1. <<26, 3039>> \in ResizableSlots /\ <<11, 3039>> \in FixedSlots
    BY DEF ResizableSlots, FixedSlots
  <2> QED
    BY <2>1, BuildsSendTab DEF Timer
<1> QED
  BY ONLY <1>1, <1>2, <1>3, <1>4, <1>5, <1>6, <1>7, <1>8, <1>9

\* A text of an interface.
LEMMA PlaysText ==
  ASSUME NEW pane, NEW id \in Nat, NEW length \in Nat, length < 60000
  PROVE  SendText(id, length) \in Seq(Sound) /\ Plays(SendText(id, length), pane, {id})
<1>1. Fits("InterfaceComponentText", length + 5)
  BY DEF Fits, Types, LengthBytes
<1>2. "InterfaceComponentText" \in Touches
  BY DEF Touches
<1>3. length + 5 \in Nat /\ (length + 1) + 4 = length + 5
  OBVIOUS
<1>4. SendText(id, length) = <<Packet("InterfaceComponentText", length + 5, <<id>>)>>
  BY <1>3 DEF SendText
<1> QED
  BY ONLY <1>1, <1>2, <1>3, <1>4, PlaysTouch, id \in Nat

\* The settings of an interface, and that a component of it is hidden.
LEMMA PlaysChanges ==
  ASSUME NEW pane, NEW id \in Nat
  PROVE  /\ SendSettings(id) \in Seq(Sound) /\ Plays(SendSettings(id), pane, {id})
         /\ SendHide(id) \in Seq(Sound) /\ Plays(SendHide(id), pane, {id})
<1>1. Fits("InterfaceComponentSetting", 12) /\ Fits("InterfaceHide", 5)
  BY DEF Fits, Types, LengthBytes, FixedSize
<1>2. "InterfaceComponentSetting" \in Touches /\ "InterfaceHide" \in Touches
  BY DEF Touches
<1>3. SendSettings(id) = <<Packet("InterfaceComponentSetting", 12, <<id>>)>>
  BY DEF SendSettings
<1>4. SendHide(id) = <<Packet("InterfaceHide", 5, <<id>>)>>
  BY DEF SendHide
<1>5. 12 \in Nat /\ 5 \in Nat
  OBVIOUS
<1>6. SendSettings(id) \in Seq(Sound) /\ Plays(SendSettings(id), pane, {id})
  BY ONLY <1>1, <1>2, <1>3, <1>5, PlaysTouch, id \in Nat
<1>7. SendHide(id) \in Seq(Sound) /\ Plays(SendHide(id), pane, {id})
  BY ONLY <1>1, <1>2, <1>4, <1>5, PlaysTouch, id \in Nat
<1> QED
  BY ONLY <1>6, <1>7

\* A list goes on with changes of what it opened.
LEMMA BuildsChange ==
  ASSUME NEW pane, NEW opened, NEW changed, changed \subseteq opened, NEW s \in Builds(pane, opened),
         NEW u \in Seq(Sound), Plays(u, pane, changed)
  PROVE  s \o u \in Builds(pane, opened)
<1> DEFINE none == {}
<1>1. Plays(u, pane, opened)
  BY PlaysWithMore
<1>2. (\A id \in none : Opens(u, id)) /\ opened \cup none = opened
  OBVIOUS
<1> HIDE DEF none
<1>3. s \o u \in Builds(pane, opened \cup none)
  BY ONLY <1>1, <1>2, BuildsWith, s \in Builds(pane, opened), u \in Seq(Sound)
<1> QED
  BY ONLY <1>2, <1>3

\* The same of one interface.
LEMMA BuildsOwn ==
  ASSUME NEW pane, NEW id, NEW s \in Builds(pane, {id}), NEW u \in Seq(Sound), Plays(u, pane, {id})
  PROVE  s \o u \in Builds(pane, {id})
BY BuildsChange

\* The combat styles, and what is shown in them.
LEMMA BuildsCombatStyles == CombatStyles \in Builds(Pane, {884})
<1>1. <<111, 884>> \in ResizableSlots /\ <<171, 884>> \in FixedSlots
  BY DEF ResizableSlots, FixedSlots
<1>2. SendTab(111, 171, 884) \in Builds(Pane, {884})
  BY <1>1, BuildsSendTab
<1>3. 884 \in Nat /\ 14 \in Nat /\ 14 < 60000
  OBVIOUS
<1>4. SendText(884, 14) \in Seq(Sound) /\ Plays(SendText(884, 14), Pane, {884})
  BY ONLY <1>3, PlaysText
<1> DEFINE s == SendTab(111, 171, 884)
           u == SendText(884, 14)
           id == 884
<1>5. s \in Builds(Pane, {id}) /\ u \in Seq(Sound) /\ Plays(u, Pane, {id})
  BY ONLY <1>2, <1>4
<1> HIDE DEF s, u, id
<1>6. s \o u \in Builds(Pane, {id})
  BY ONLY <1>5, BuildsOwn
<1> QED
  BY ONLY <1>6 DEF CombatStyles, s, u, id

\* The squeel of fortune, with two components of it hidden.
LEMMA BuildsSqueelOfFortune == SqueelOfFortune \in Builds(Pane, {1139})
<1>1. <<119, 1139>> \in ResizableSlots /\ <<179, 1139>> \in FixedSlots
  BY DEF ResizableSlots, FixedSlots
<1>2. SendTab(119, 179, 1139) \in Builds(Pane, {1139})
  BY <1>1, BuildsSendTab
<1>3. SendHide(1139) \in Seq(Sound) /\ Plays(SendHide(1139), Pane, {1139})
  <2>1. 1139 \in Nat
    OBVIOUS
  <2> QED
    BY ONLY <2>1, PlaysChanges
<1> DEFINE s == SendTab(119, 179, 1139)
           u == SendHide(1139)
           id == 1139
<1>4. s \in Builds(Pane, {id}) /\ u \in Seq(Sound) /\ Plays(u, Pane, {id})
  BY ONLY <1>2, <1>3
<1> HIDE DEF s, u, id
<1>5. s \o u \in Builds(Pane, {id})
  BY ONLY <1>4, BuildsOwn
<1>6. (s \o u) \o u \in Builds(Pane, {id})
  BY ONLY <1>4, <1>5, BuildsOwn
<1> QED
  BY ONLY <1>6 DEF SqueelOfFortune, s, u, id

\* The chat, in an interface of the frames.
LEMMA PlaysChat ==
  ASSUME NEW pane
  PROVE  TabIn(752, 9, 137) \in Seq(Sound) /\ Plays(TabIn(752, 9, 137), pane, {752})
<1> DEFINE p == TabPacket(752, 9, 137)
           s == <<p>>
<1>1. p \in Sound /\ p.type = "InterfaceTab" /\ p.about = <<752, 9, 137>>
  BY SoundTab
<1>2. TabIn(752, 9, 137) = s
  BY DEF TabIn
<1> HIDE DEF p
<1>3. s \in Seq(Sound) /\ Len(s) = 1 /\ s[1] = p
  BY ONLY <1>1
<1> HIDE DEF s
<1>4. \A i \in 1 .. 1 : i = 1
  OBVIOUS
<1>5. p.about[1] = 752
  BY ONLY <1>1
<1>6. InLayout(pane, p.about)
  BY ONLY <1>1 DEF InLayout
<1>7. "InterfaceTab" \notin Touches
  BY DEF Touches
<1>8. Plays(s, pane, {752})
  BY ONLY <1>1, <1>3, <1>4, <1>5, <1>6, <1>7 DEF Plays, OpenAt
<1> QED
  BY ONLY <1>2, <1>3, <1>8

\* A number goes out as a value of four bytes.
LEMMA BuildsValue ==
  ASSUME NEW pane, NEW id \in Nat, NEW n \in Nat
  PROVE  SendConfig(id, Value(n)) \in Builds(pane, {}) /\ SendGlobalConfig(id, Value(n)) \in Builds(pane, {})
<1>1. n \div 256 \in Nat /\ n % 256 \in Nat
  OBVIOUS
<1>2. Value(n) \in Nat \X Nat \X Nat \X Nat
  BY <1>1 DEF Value
<1> QED
  BY ONLY <1>2, BuildsConfig, id \in Nat

\* A list keeps what its second part opens.
LEMMA BuildsRight ==
  ASSUME NEW pane, NEW opened, NEW more, NEW s \in Builds(pane, opened), NEW u \in Builds(pane, more)
  PROVE  s \o u \in Builds(pane, more)
<1>1. s \o u \in Builds(pane, opened \cup more)
  BY BuildsBoth
<1>2. more \subseteq opened \cup more
  OBVIOUS
<1> QED
  BY ONLY <1>1, <1>2, BuildsLess

\* Two lists that build on the same do so one behind the other.
LEMMA PlaysBoth ==
  ASSUME NEW pane, NEW open, NEW s \in Seq(Sound), NEW u \in Seq(Sound), Plays(s, pane, open), Plays(u, pane, open)
  PROVE  s \o u \in Seq(Sound) /\ Plays(s \o u, pane, open)
<1>1. s \in Seq(WirePackets) /\ u \in Seq(WirePackets)
  BY SoundArePackets
<1>2. \A id \in open : OpenAt(s, Len(s) + 1, open, id)
  BY DEF OpenAt
<1>3. Plays(s \o u, pane, open)
  BY <1>1, <1>2, PlaysConcat
<1> QED
  BY <1>3, SoundConcat

\* The interfaces in which something is changed once all others are open.
kEmotes == {590}
kStyles == {884}
kFrames == {752}

\* The single tabs and the two with something in them build on nothing.
LEMMA BuildsParts ==
  /\ PrayerBook \in Builds(Pane, {}) /\ Equipment \in Builds(Pane, {}) /\ Inventory \in Builds(Pane, {})
  /\ Quests \in Builds(Pane, {}) /\ TaskSystem \in Builds(Pane, {}) /\ Skills \in Builds(Pane, {})
  /\ Settings \in Builds(Pane, {}) /\ SqueelOfFortune \in Builds(Pane, {}) /\ Timer \in Builds(Pane, {})
  /\ Emotes \in Builds(Pane, kEmotes) /\ CombatStyles \in Builds(Pane, kStyles)
<1>1. ASSUME NEW opened, NEW s \in Builds(Pane, opened)
      PROVE  s \in Builds(Pane, {})
  BY <1>1, BuildsLess
<1>2. /\ PrayerBook \in Builds(Pane, {}) /\ Equipment \in Builds(Pane, {}) /\ Inventory \in Builds(Pane, {})
      /\ Quests \in Builds(Pane, {}) /\ TaskSystem \in Builds(Pane, {}) /\ Skills \in Builds(Pane, {})
      /\ Settings \in Builds(Pane, {}) /\ Timer \in Builds(Pane, {})
  BY ONLY <1>1, BuildsSingleTabs
<1>3. SqueelOfFortune \in Builds(Pane, {})
  BY ONLY <1>1, BuildsSqueelOfFortune
<1>4. Emotes \in Builds(Pane, kEmotes)
  BY ONLY BuildsSingleTabs DEF kEmotes
<1>5. CombatStyles \in Builds(Pane, kStyles)
  BY ONLY BuildsCombatStyles DEF kStyles
<1> QED
  BY ONLY <1>2, <1>3, <1>4, <1>5

\* The frames, the chat in them.
LEMMA BuildsWithChat ==
  ASSUME NEW pane, NEW s \in Builds(pane, kFrames)
  PROVE  s \o TabIn(752, 9, 137) \in Builds(pane, {})
<1>1. TabIn(752, 9, 137) \in Seq(Sound) /\ Plays(TabIn(752, 9, 137), pane, kFrames)
  BY PlaysChat DEF kFrames
<1>2. s \o TabIn(752, 9, 137) \in Builds(pane, kFrames \cup {})
  <2> DEFINE u == TabIn(752, 9, 137)
             none == {}
  <2>1. u \in Seq(Sound) /\ Plays(u, pane, kFrames) /\ \A id \in none : Opens(u, id)
    BY ONLY <1>1
  <2> HIDE DEF u, none
  <2>2. s \o u \in Builds(pane, kFrames \cup none)
    BY ONLY <2>1, BuildsWith, s \in Builds(pane, kFrames)
  <2> QED
    BY ONLY <2>2 DEF u, none
<1> QED
  BY ONLY <1>2, BuildsLess

\* Tabs in slots of the pane open whatever is among them.
LEMMA BuildsSomeTabs ==
  ASSUME NEW pane \in Nat, NEW pairs \in Seq(Nat \X Nat), NEW some,
         \A i \in 1 .. Len(pairs) : <<pairs[i][1], pairs[i][2]>> \in Slots(pane),
         some \subseteq {pairs[i][2] : i \in 1 .. Len(pairs)}
  PROVE  TabsOf(pane, pairs) \in Builds(pane, some)
<1>1. TabsOf(pane, pairs) \in Builds(pane, {pairs[i][2] : i \in 1 .. Len(pairs)})
  BY BuildsTabs
<1> QED
  BY ONLY <1>1, BuildsLess, some \subseteq {pairs[i][2] : i \in 1 .. Len(pairs)}

\* The fixed layout fills its slots, and only what is open.
LEMMA BuildsFixed ==
  ASSUME ~ IsResizable
  PROVE  FixedInterfaces \in Builds(Pane, kEmotes \cup kStyles)
<1> DEFINE frames == <<<<161, 752>>, <<37, 751>>, <<23, 745>>, <<25, 754>>,
                       <<155, 747>>, <<151, 748>>, <<152, 749>>, <<153, 750>>>>
           side == <<<<181, 1109>>, <<182, 1110>>, <<180, 550>>, <<185, 187>>, <<186, 34>>, <<189, 182>>>>
           s1 == TabsOf(kFixedPane, frames)
           s2 == s1 \o TabIn(752, 9, 137)
           s3 == s2 \o TabIn(kFixedPane, 9, 167)
           s4 == s3 \o PrayerBook \o Equipment \o Inventory \o Quests \o SqueelOfFortune
           s5 == s4 \o TabsOf(kFixedPane, side) \o Skills
           s6 == s5 \o Emotes \o Settings \o TaskSystem
           s7 == s6 \o CombatStyles
<1>1. Pane = kFixedPane /\ kFixedPane \in Nat
  BY DEF Pane, kFixedPane
<1>2. Slots(kFixedPane) = FixedSlots
  BY DEF Slots, kResizablePane, kFixedPane
<1>3. TabIn(kFixedPane, 9, 167) \in Builds(Pane, {167})
  <2>1. <<9, 167>> \in Slots(kFixedPane) /\ 9 \in Nat /\ 167 \in Nat
    BY <1>2 DEF FixedSlots
  <2> QED
    BY ONLY <1>1, <2>1, BuildsTab
<1>4. /\ frames \in Seq(Nat \X Nat) /\ kFrames \subseteq {frames[i][2] : i \in 1 .. Len(frames)}
      /\ \A i \in 1 .. Len(frames) : <<frames[i][1], frames[i][2]>> \in Slots(kFixedPane)
  BY <1>2 DEF FixedSlots, kFrames
<1>5. /\ side \in Seq(Nat \X Nat) /\ {} \subseteq {side[i][2] : i \in 1 .. Len(side)}
      /\ \A i \in 1 .. Len(side) : <<side[i][1], side[i][2]>> \in Slots(kFixedPane)
  BY <1>2 DEF FixedSlots
<1> HIDE DEF frames, side, s1, s2, s3, s4, s5, s6, s7
<1>6. ASSUME NEW opened, NEW more, NEW s \in Builds(Pane, opened), NEW u \in Builds(Pane, more)
      PROVE  s \o u \in Builds(Pane, opened)
  BY ONLY <1>6, BuildsThen
<1>7. s1 \in Builds(Pane, kFrames)
  BY ONLY <1>1, <1>4, BuildsSomeTabs DEF s1
<1>8. s2 \in Builds(Pane, {})
  BY ONLY <1>7, BuildsWithChat DEF s2
<1>9. s3 \in Builds(Pane, {})
  BY ONLY <1>3, <1>6, <1>8 DEF s3
<1>10. s4 \in Builds(Pane, {})
  BY ONLY <1>6, <1>9, BuildsParts DEF s4
<1>11. TabsOf(kFixedPane, side) \in Builds(Pane, {})
  BY ONLY <1>1, <1>5, BuildsSomeTabs
<1>12. s5 \in Builds(Pane, {})
  BY ONLY <1>6, <1>10, <1>11, BuildsParts DEF s5
<1>13. s6 \in Builds(Pane, kEmotes)
  <2>1. s5 \o Emotes \in Builds(Pane, kEmotes)
    BY ONLY <1>12, BuildsParts, BuildsRight
  <2> QED
    BY ONLY <1>6, <2>1, BuildsParts DEF s6
<1>14. s7 \in Builds(Pane, kEmotes \cup kStyles)
  BY ONLY <1>13, BuildsParts, BuildsBoth DEF s7
<1> QED
  BY ONLY <1>14 DEF FixedInterfaces, frames, side, s1, s2, s3, s4, s5, s6, s7

\* So does the resizable one.
LEMMA BuildsResizable ==
  ASSUME IsResizable
  PROVE  ResizableInterfaces \in Builds(Pane, kStyles \cup kEmotes)
<1> DEFINE frames == <<<<21, 752>>, <<22, 751>>, <<15, 745>>, <<25, 754>>,
                       <<195, 748>>, <<196, 749>>, <<197, 750>>, <<198, 747>>>>
           side == <<<<120, 550>>, <<121, 1109>>, <<122, 1110>>>>
           last == <<<<125, 187>>, <<126, 34>>, <<129, 182>>>>
           s1 == TabsOf(kResizablePane, frames)
           s2 == s1 \o TabIn(752, 9, 137)
           s3 == s2 \o SqueelOfFortune \o SendGlobalConfig(823, Value(1))
           s4 == s3 \o CombatStyles \o TaskSystem \o Skills \o Quests
           s5 == s4 \o Inventory \o Equipment \o PrayerBook
           s6 == s5 \o TabsOf(kResizablePane, side) \o Settings
           s7 == s6 \o Emotes
           s8 == s7 \o TabsOf(kResizablePane, last)
<1>1. Pane = kResizablePane /\ kResizablePane \in Nat
  BY DEF Pane, kResizablePane
<1>2. Slots(kResizablePane) = ResizableSlots
  BY DEF Slots, kResizablePane, kFixedPane
<1>3. SendGlobalConfig(823, Value(1)) \in Builds(Pane, {})
  BY BuildsValue
<1>4. /\ frames \in Seq(Nat \X Nat) /\ kFrames \subseteq {frames[i][2] : i \in 1 .. Len(frames)}
      /\ \A i \in 1 .. Len(frames) : <<frames[i][1], frames[i][2]>> \in Slots(kResizablePane)
  BY <1>2 DEF ResizableSlots, kFrames
<1>5. /\ side \in Seq(Nat \X Nat) /\ {} \subseteq {side[i][2] : i \in 1 .. Len(side)}
      /\ \A i \in 1 .. Len(side) : <<side[i][1], side[i][2]>> \in Slots(kResizablePane)
  BY <1>2 DEF ResizableSlots
<1>6. /\ last \in Seq(Nat \X Nat) /\ {} \subseteq {last[i][2] : i \in 1 .. Len(last)}
      /\ \A i \in 1 .. Len(last) : <<last[i][1], last[i][2]>> \in Slots(kResizablePane)
  BY <1>2 DEF ResizableSlots
<1> HIDE DEF frames, side, last, s1, s2, s3, s4, s5, s6, s7, s8
<1>7. ASSUME NEW opened, NEW more, NEW s \in Builds(Pane, opened), NEW u \in Builds(Pane, more)
      PROVE  s \o u \in Builds(Pane, opened)
  BY ONLY <1>7, BuildsThen
<1>8. TabsOf(kResizablePane, side) \in Builds(Pane, {}) /\ TabsOf(kResizablePane, last) \in Builds(Pane, {})
  BY ONLY <1>1, <1>5, <1>6, BuildsSomeTabs
<1>9. s1 \in Builds(Pane, kFrames)
  BY ONLY <1>1, <1>4, BuildsSomeTabs DEF s1
<1>10. s2 \in Builds(Pane, {})
  BY ONLY <1>9, BuildsWithChat DEF s2
<1>11. s3 \in Builds(Pane, {})
  <2>1. s2 \o SqueelOfFortune \in Builds(Pane, {})
    BY ONLY <1>10, BuildsParts, BuildsThen
  <2> QED
    BY ONLY <1>3, <2>1, BuildsThen DEF s3
<1>12. s4 \in Builds(Pane, kStyles)
  <2>1. s3 \o CombatStyles \in Builds(Pane, kStyles)
    BY ONLY <1>11, BuildsParts, BuildsRight
  <2> QED
    BY ONLY <1>7, <2>1, BuildsParts DEF s4
<1>13. s5 \in Builds(Pane, kStyles)
  BY ONLY <1>7, <1>12, BuildsParts DEF s5
<1>14. s6 \in Builds(Pane, kStyles)
  BY ONLY <1>7, <1>8, <1>13, BuildsParts DEF s6
<1>15. s7 \in Builds(Pane, kStyles \cup kEmotes)
  BY ONLY <1>14, BuildsParts, BuildsBoth DEF s7
<1>16. s8 \in Builds(Pane, kStyles \cup kEmotes)
  BY ONLY <1>7, <1>8, <1>15 DEF s8
<1> QED
  BY ONLY <1>16 DEF ResizableInterfaces, ResizableChat, ResizableFrames, frames, side, last, s1, s2, s3, s4, s5, s6, s7, s8

\* Everything that is opened in the pane builds on itself.
LEMMA BuildsOpened == Opened \in Builds(Pane, {})
<1> DEFINE both == kStyles \cup kEmotes
           u == SendSettings(884)
           e == SendSettings(590)
           o0 == IF IsResizable THEN ResizableInterfaces ELSE FixedInterfaces
           o1 == o0 \o UnlockAttackStyleButtons
           o2 == o1 \o e
           o3 == o2 \o Timer
           o4 == o3 \o SendPlayerOption(6)
           o5 == o4 \o SendPlayerOption(5)
<1>1. o0 \in Builds(Pane, both)
  <2>1. CASE IsResizable
    BY ONLY <2>1, BuildsResizable
  <2>2. CASE ~ IsResizable
    <3>1. kEmotes \cup kStyles = both
      OBVIOUS
    <3> QED
      BY ONLY <2>2, <3>1, BuildsFixed
  <2> QED
    BY ONLY <2>1, <2>2
<1>2. u \in Seq(Sound) /\ Plays(u, Pane, kStyles) /\ e \in Seq(Sound) /\ Plays(e, Pane, kEmotes)
  <2>1. 884 \in Nat /\ 590 \in Nat
    OBVIOUS
  <2>2. SendSettings(884) \in Seq(Sound) /\ Plays(SendSettings(884), Pane, {884})
    BY ONLY <2>1, PlaysChanges
  <2>3. SendSettings(590) \in Seq(Sound) /\ Plays(SendSettings(590), Pane, {590})
    BY ONLY <2>1, PlaysChanges
  <2> QED
    BY ONLY <2>2, <2>3 DEF kStyles, kEmotes
<1>3. kStyles \subseteq both /\ kEmotes \subseteq both
  OBVIOUS
<1>4. ASSUME NEW length \in Nat, length < 100
      PROVE  SendPlayerOption(length) \in Builds(Pane, {})
  <2>1. Fits("PlayerOption", length + 5) /\ length + 5 \in Nat /\ (((1 + length) + 1) + 2) + 1 = length + 5
    BY <1>4 DEF Fits, Types, LengthBytes
  <2>2. "PlayerOption" \in Types \ (Touches \cup TellsConfig \cup {"InterfaceTab", "InterfaceWindowPane"})
    BY DEF Types, Touches, TellsConfig
  <2>3. SendPlayerOption(length) = <<Packet("PlayerOption", length + 5, <<>>)>>
    BY <2>1 DEF SendPlayerOption
  <2> QED
    BY ONLY <2>1, <2>2, <2>3, BuildsSimple
<1>5. SendPlayerOption(6) \in Builds(Pane, {}) /\ SendPlayerOption(5) \in Builds(Pane, {})
  BY <1>4
<1> HIDE DEF both, u, e, o0, o1, o2, o3, o4, o5
<1>6. UnlockAttackStyleButtons \in Seq(Sound) /\ Plays(UnlockAttackStyleButtons, Pane, kStyles)
  <2>1. u \o u \in Seq(Sound) /\ Plays(u \o u, Pane, kStyles)
    BY ONLY <1>2, PlaysBoth
  <2>2. (u \o u) \o u \in Seq(Sound) /\ Plays((u \o u) \o u, Pane, kStyles)
    BY ONLY <1>2, <2>1, PlaysBoth
  <2>3. ((u \o u) \o u) \o u \in Seq(Sound) /\ Plays(((u \o u) \o u) \o u, Pane, kStyles)
    BY ONLY <1>2, <2>2, PlaysBoth
  <2> QED
    BY ONLY <2>3 DEF UnlockAttackStyleButtons, u
<1>7. o1 \in Builds(Pane, both)
  BY ONLY <1>1, <1>3, <1>6, BuildsChange DEF o1
<1>8. o2 \in Builds(Pane, both)
  BY ONLY <1>2, <1>3, <1>7, BuildsChange DEF o2
<1>9. o3 \in Builds(Pane, {})
  BY ONLY <1>8, BuildsParts, BuildsRight DEF o3
<1>10. o4 \in Builds(Pane, {})
  BY ONLY <1>5, <1>9, BuildsThen DEF o4
<1>11. o5 \in Builds(Pane, {})
  BY ONLY <1>5, <1>10, BuildsThen DEF o5
<1> QED
  BY ONLY <1>11 DEF Opened, o0, o1, o2, o3, o4, o5, e

\* The messages of the log-in fit their headers when the name leaves room.
LEMMA BuildsMessages ==
  ASSUME InterfacesAssumption, nameLength \in Nat, NEW pane
  PROVE  SendMessage(kWelcome) \in Builds(pane, {}) /\ SendMessage(kLicence) \in Builds(pane, {})
<1>1. kWelcome \in Nat /\ kLicence \in Nat /\ kWelcome <= kLicence
  BY DEF InterfacesAssumption
<1>2. ASSUME NEW length \in Nat, length <= kLicence
      PROVE  SendMessage(length) \in Builds(pane, {})
  <2> DEFINE size == 1 + 4 + 1 + nameLength + 1 + length + 1
  <2>1. size \in Nat /\ size = 8 + nameLength + length
    BY ONLY nameLength \in Nat, length \in Nat
  <2>2. SendMessage(length) = <<Packet("Message", size, <<>>)>>
    BY ONLY DEF SendMessage, Simple
  <2> HIDE DEF size
  <2>3. nameLength <= 255 - 8 - kLicence => size < 256
    BY ONLY <1>1, <1>2, <2>1, nameLength \in Nat, length \in Nat
  <2>4. Fits("Message", size)
    BY ONLY <2>3 DEF Fits, Types, LengthBytes, kLongestName
  <2>5. "Message" \in Types \ (Touches \cup TellsConfig \cup {"InterfaceTab", "InterfaceWindowPane"})
    BY DEF Types, Touches, TellsConfig
  <2> QED
    BY ONLY <2>1, <2>2, <2>4, <2>5, BuildsSimple
<1> QED
  BY ONLY <1>1, <1>2, kLicence <= kLicence

\* The levels of the skills go out one by one.
LEMMA BuildsSkills ==
  ASSUME NEW pane
  PROVE  SendPlayerSkills \in Builds(pane, {})
<1> DEFINE p == Packet("PlayerSkill", 6, <<>>)
           s == SendPlayerSkills
<1>1. s = [skill \in 1 .. 25 |-> p]
  BY DEF SendPlayerSkills
<1>2. Fits("PlayerSkill", 6) /\ "PlayerSkill" \in Types
  BY DEF Fits, Types, LengthBytes, FixedSize
<1>3. "PlayerSkill" \notin Touches \cup TellsConfig \cup {"InterfaceTab", "InterfaceWindowPane"}
  BY DEF Touches, TellsConfig
<1>4. p \in Sound /\ p.type = "PlayerSkill"
  BY <1>2, <1>3, SoundOne DEF Packet
<1> HIDE DEF p, s
<1>5. s \in [1 .. 25 -> Sound] /\ DOMAIN s = 1 .. 25 /\ 25 \in Nat
  BY ONLY <1>1, <1>4
<1>6. s \in Seq(Sound)
  BY ONLY <1>5, SeqDef
<1>7. Len(s) = 25
  BY ONLY <1>5, <1>6, LenProperties
<1>8. \A i \in 1 .. 25 : s[i].type = "PlayerSkill"
  BY ONLY <1>1, <1>4
<1>9. Plays(s, pane, {})
  BY ONLY <1>3, <1>7, <1>8 DEF Plays
<1> QED
  BY ONLY <1>6, <1>9 DEF Builds, s

\* The rest of a log-in opens and changes no interface.
LEMMA BuildsState ==
  ASSUME InterfacesAssumption, nameLength \in Nat, NEW pane
  PROVE  SendState \in Builds(pane, {})
<1>1. ASSUME NEW type \in {"RunEnergy", "ItemLook", "CustomPacket161", "ConfigGameBarPrivate"}
      PROVE  Simple(type, 1) \in Builds(pane, {})
  <2>1. type \in Types \ (Touches \cup TellsConfig \cup {"InterfaceTab", "InterfaceWindowPane"})
    BY DEF Types, Touches, TellsConfig
  <2>2. Fits(type, 1) /\ 1 \in Nat
    BY DEF Fits, Types, LengthBytes, FixedSize
  <2> QED
    BY <2>1, <2>2, BuildsSimple DEF Simple
<1>2. Simple("ConfigGameBarOther", 2) \in Builds(pane, {})
  <2>1. "ConfigGameBarOther" \in Types \ (Touches \cup TellsConfig \cup {"InterfaceTab", "InterfaceWindowPane"})
    BY DEF Types, Touches, TellsConfig
  <2>2. Fits("ConfigGameBarOther", 2) /\ 2 \in Nat
    BY DEF Fits, Types, LengthBytes, FixedSize
  <2> QED
    BY <2>1, <2>2, BuildsSimple DEF Simple
<1>3. SendFileConfig(7198, Value(100)) \in Builds(pane, {})
  <2>1. Value(100) \in Nat \X Nat \X Nat \X Nat /\ FitsByte(Value(100)) /\ 7198 \in Nat
    BY DEF Value, FitsByte
  <2> QED
    BY ONLY <2>1, BuildsConfig
<1>4. /\ SendConfig(1054, Value(0)) \in Builds(pane, {}) /\ SendConfig(1055, Value(0)) \in Builds(pane, {})
      /\ SendConfig(1056, Value(0)) \in Builds(pane, {}) /\ SendConfig(2159, Value(0)) \in Builds(pane, {})
      /\ SendConfig(281, Value(1000)) \in Builds(pane, {}) /\ SendConfig(1159, Value(1)) \in Builds(pane, {})
      /\ SendGlobalConfig(616, Value(0)) \in Builds(pane, {})
  <2>1. /\ 1054 \in Nat /\ 1055 \in Nat /\ 1056 \in Nat /\ 2159 \in Nat /\ 281 \in Nat /\ 1159 \in Nat
        /\ 616 \in Nat /\ 0 \in Nat /\ 1 \in Nat /\ 1000 \in Nat
    OBVIOUS
  <2> QED
    BY ONLY <2>1, BuildsValue
<1>5. SendConfig(1160, MinusOne) \in Builds(pane, {})
  <2>1. MinusOne \in Nat \X Nat \X Nat \X Nat /\ 1160 \in Nat
    BY DEF MinusOne
  <2> QED
    BY ONLY <2>1, BuildsConfig
<1>6. ASSUME NEW s \in Builds(pane, {}), NEW u \in Builds(pane, {})
      PROVE  s \o u \in Builds(pane, {})
  BY ONLY <1>6, BuildsThen
<1>7. GameBarStages \in Builds(pane, {})
  BY ONLY <1>1, <1>2, <1>4, <1>6 DEF GameBarStages
<1>8. SendMessage(kWelcome) \in Builds(pane, {}) /\ SendMessage(kLicence) \in Builds(pane, {})
  BY BuildsMessages
<1>9. SendPlayerSkills \in Builds(pane, {})
  BY ONLY BuildsSkills
<1> DEFINE s1 == Simple("RunEnergy", 1) \o SendFileConfig(7198, Value(100)) \o Simple("ItemLook", 1)
           s2 == s1 \o Simple("CustomPacket161", 1) \o SendMessage(kWelcome) \o SendMessage(kLicence)
           s3 == s2 \o SendGlobalConfig(616, Value(0)) \o SendConfig(281, Value(1000)) \o SendConfig(1159, Value(1))
           s4 == s3 \o SendConfig(1160, MinusOne) \o GameBarStages \o SendPlayerSkills
<1> HIDE DEF s1, s2, s3, s4
<1>10. s1 \in Builds(pane, {})
  BY ONLY <1>1, <1>3, <1>6 DEF s1
<1>11. s2 \in Builds(pane, {})
  BY ONLY <1>1, <1>6, <1>8, <1>10 DEF s2
<1>12. s3 \in Builds(pane, {})
  BY ONLY <1>4, <1>6, <1>11 DEF s3
<1>13. s4 \in Builds(pane, {})
  BY ONLY <1>5, <1>6, <1>7, <1>9, <1>12 DEF s4
<1> QED
  BY ONLY <1>13 DEF SendState, s1, s2, s3, s4

\* One packet in front of others: it goes out first, and leaves the others.
LEMMA InFront ==
  ASSUME NEW S, NEW p \in S, NEW e \in Seq(S)
  PROVE  /\ <<p>> \o e \in Seq(S) /\ <<p>> \o e # <<>>
         /\ Head(<<p>> \o e) = p /\ Tail(<<p>> \o e) = e
<1> DEFINE n == Len(e)
           s == <<p>> \o e
<1>1. n \in Nat
  BY LenProperties
<1>2. <<p>> \in Seq(S) /\ Len(<<p>>) = 1 /\ <<p>>[1] = p
  OBVIOUS
<1>3. s \in Seq(S) /\ Len(s) = 1 + n /\ \A i \in 1 .. 1 + n : s[i] = IF i <= 1 THEN <<p>>[i] ELSE e[i - 1]
  BY ONLY <1>2, e \in Seq(S), ConcatProperties DEF n, s
<1> HIDE DEF s
<1>4. s # <<>>
  BY ONLY <1>1, <1>3, EmptySeq
<1>5. Head(s) = p
  <2>1. Head(s) = s[1]
    BY ONLY <1>3, <1>4, HeadTailProperties
  <2>2. 1 \in 1 .. 1 + n /\ 1 <= 1
    BY ONLY <1>1
  <2> QED
    BY ONLY <1>2, <1>3, <2>1, <2>2
<1>6. Tail(s) = e
  <2>1. Tail(s) \in Seq(S) /\ Len(Tail(s)) = Len(s) - 1 /\ \A i \in 1 .. Len(Tail(s)) : Tail(s)[i] = s[i + 1]
    BY ONLY <1>3, <1>4, HeadTailProperties
  <2>2. Len(Tail(s)) = n
    BY ONLY <1>1, <1>3, <2>1
  <2>3. ASSUME NEW i \in 1 .. n
        PROVE  Tail(s)[i] = e[i]
    <3>1. i + 1 \in 1 .. 1 + n /\ ~ (i + 1 <= 1) /\ (i + 1) - 1 = i
      BY ONLY <1>1, i \in 1 .. n
    <3> QED
      BY ONLY <1>3, <2>1, <2>2, <3>1, i \in 1 .. n
  <2> QED
    BY ONLY <2>1, <2>2, <2>3, SeqEqual, e \in Seq(S) DEF n
<1> QED
  BY ONLY <1>3, <1>4, <1>5, <1>6 DEF s

\* What a packet that goes out finds open, and what it leaves open.
LEMMA PlaysTail ==
  ASSUME NEW s \in Seq(WirePackets), s # <<>>, NEW pane, NEW open, Plays(s, pane, open), NEW more, open \subseteq more,
         Head(s).type = "InterfaceTab" => Head(s).about[3] \in more
  PROVE  /\ Head(s).type # "InterfaceWindowPane"
         /\ Head(s).type = "InterfaceTab" =>
              InLayout(pane, Head(s).about) /\ (Head(s).about[1] = pane \/ Head(s).about[1] \in open)
         /\ Head(s).type \in Touches => Head(s).about[1] \in open
         /\ Plays(Tail(s), pane, more)
<1> DEFINE n == Len(s)
           u == Tail(s)
<1>1. n \in Nat /\ n # 0
  BY EmptySeq
<1>2. Head(s) = s[1] /\ Len(u) = n - 1 /\ \A i \in 1 .. Len(u) : u[i] = s[i + 1]
  BY HeadTailProperties
<1>3. \A i \in 1 .. n :
        /\ s[i].type # "InterfaceWindowPane"
        /\ s[i].type = "InterfaceTab" =>
             InLayout(pane, s[i].about) /\ (s[i].about[1] = pane \/ OpenAt(s, i, open, s[i].about[1]))
        /\ s[i].type \in Touches => OpenAt(s, i, open, s[i].about[1])
  BY DEF Plays
<1> HIDE DEF n, u
<1>4. 1 \in 1 .. n
  BY ONLY <1>1
<1>5. ASSUME NEW id, OpenAt(s, 1, open, id)
      PROVE  id \in open
  <2>1. \A k \in 1 .. 1 - 1 : FALSE
    OBVIOUS
  <2> QED
    BY ONLY <1>5, <2>1 DEF OpenAt
<1>6. ASSUME NEW j \in 1 .. n - 1, NEW id, OpenAt(s, j + 1, open, id)
      PROVE  OpenAt(u, j, more, id)
  <2>1. CASE id \in open
    BY ONLY <2>1, open \subseteq more DEF OpenAt
  <2>2. CASE \E k \in 1 .. (j + 1) - 1 : s[k].type = "InterfaceTab" /\ s[k].about[3] = id
    <3>1. PICK k \in 1 .. (j + 1) - 1 : s[k].type = "InterfaceTab" /\ s[k].about[3] = id
      BY <2>2
    <3>2. CASE k = 1
      BY ONLY <1>2, <3>1, <3>2, Head(s).type = "InterfaceTab" => Head(s).about[3] \in more DEF OpenAt
    <3>3. CASE k # 1
      <4>1. k - 1 \in 1 .. j - 1 /\ k - 1 \in 1 .. n - 1 /\ (k - 1) + 1 = k
        BY ONLY <1>1, <3>3, k \in 1 .. (j + 1) - 1, j \in 1 .. n - 1
      <4>2. u[k - 1] = s[k]
        BY ONLY <1>2, <4>1
      <4> QED
        BY ONLY <3>1, <4>1, <4>2 DEF OpenAt
    <3> QED
      BY ONLY <3>2, <3>3
  <2> QED
    BY ONLY <1>6, <2>1, <2>2 DEF OpenAt
<1>7. \A j \in 1 .. n - 1 : j + 1 \in 1 .. n
  BY ONLY <1>1
<1>8. Plays(u, pane, more)
  BY ONLY <1>2, <1>3, <1>6, <1>7 DEF Plays
<1>9. Head(s).type # "InterfaceWindowPane"
  BY ONLY <1>2, <1>3, <1>4
<1>10. Head(s).type = "InterfaceTab" =>
         InLayout(pane, Head(s).about) /\ (Head(s).about[1] = pane \/ Head(s).about[1] \in open)
  BY ONLY <1>2, <1>3, <1>4, <1>5
<1>11. Head(s).type \in Touches => Head(s).about[1] \in open
  BY ONLY <1>2, <1>3, <1>4, <1>5
<1> QED
  BY ONLY <1>8, <1>9, <1>10, <1>11 DEF u

\* The packets of a layout: its pane, then what builds on itself in it; and
\* those of a log-in, the map in front of them.
Opening(s) ==
  \E p \in Sound : \E e \in Builds(Pane, {}) :
    p.type = "InterfaceWindowPane" /\ p.about[1] = Pane /\ s = <<p>> \o e
Entering(s) ==
  \E p \in Sound : \E e \in Seq(Sound) :
    p.type = "MapRegion" /\ Opening(e) /\ s = <<p>> \o e

\* A layout is set up whatever the mode of the player.
LEMMA InterfacesOpen == Opening(SendInterfaces)
<1> DEFINE p == Packet("InterfaceWindowPane", 19, <<Pane>>)
<1>1. SendInterfaces = <<p>> \o Opened
  BY DEF SendInterfaces, SendWindowPane
<1>2. Pane \in Nat
  BY DEF Pane, kResizablePane, kFixedPane
<1>3. Fits("InterfaceWindowPane", 19) /\ "InterfaceWindowPane" \in Types /\ "InterfaceWindowPane" \notin TellsConfig
  BY DEF Fits, Types, LengthBytes, FixedSize, TellsConfig
<1>4. p \in Sound
  <2>1. <<Pane>> \in {<<id>> : id \in Nat}
    BY <1>2
  <2> QED
    BY <1>3, <2>1, SoundOne
<1>5. p.type = "InterfaceWindowPane" /\ p.about[1] = Pane
  BY DEF Packet
<1> HIDE DEF p
<1> QED
  BY ONLY <1>1, <1>4, <1>5, BuildsOpened DEF Opening

\* So it is when a player enters, behind the map, and the rest follows.
LEMMA StartPlayerEnters ==
  ASSUME InterfacesAssumption, nameLength \in Nat, NEW regions \in MapRegions
  PROVE  StartPlayer(regions) \in Seq(Sound) /\ Entering(StartPlayer(regions))
<1> DEFINE size == (30 + 2046 * 18 + 7) \div 8 + 1 + 1 + 2 + 2 + 16 * regions
           m == Packet("MapRegion", size, <<>>)
<1>1. size \in Nat /\ size < 65536
  <2>1. regions \in Nat /\ regions <= 256
    BY DEF InterfacesAssumption
  <2>2. (30 + 2046 * 18 + 7) \div 8 = 4608
    OBVIOUS
  <2> QED
    BY ONLY <2>1, <2>2
<1>2. SendMap(regions) = <<m>>
  BY DEF SendMap, Simple
<1> HIDE DEF size
<1>3. Fits("MapRegion", size) /\ "MapRegion" \in Types /\ "MapRegion" \notin TellsConfig
  BY ONLY <1>1 DEF Fits, Types, LengthBytes, TellsConfig
<1>4. m \in Sound /\ m.type = "MapRegion"
  BY ONLY <1>1, <1>3, SoundOne DEF Packet
<1> HIDE DEF m
<1>5. PICK p \in Sound, e \in Builds(Pane, {}) :
        p.type = "InterfaceWindowPane" /\ p.about[1] = Pane /\ SendInterfaces = <<p>> \o e
  BY InterfacesOpen DEF Opening
<1>6. e \o SendState \in Builds(Pane, {})
  BY ONLY BuildsState, BuildsThen, InterfacesAssumption, nameLength \in Nat, e \in Builds(Pane, {})
<1>7. e \in Seq(Sound) /\ SendState \in Seq(Sound) /\ <<p>> \in Seq(Sound) /\ e \o SendState \in Seq(Sound)
  <2>1. SendState \in Builds(Pane, {})
    BY ONLY BuildsState, InterfacesAssumption, nameLength \in Nat
  <2> QED
    BY ONLY <1>6, <2>1, e \in Builds(Pane, {}), p \in Sound DEF Builds
<1>8. SendInterfaces \o SendState = <<p>> \o (e \o SendState)
  BY ONLY <1>5, <1>7, ConcatAssociative
<1>9. Opening(SendInterfaces \o SendState)
  BY ONLY <1>5, <1>6, <1>8, p \in Sound DEF Opening
<1>10. SendInterfaces \o SendState \in Seq(Sound)
  BY ONLY <1>7, <1>8, InFront, p \in Sound
<1>11. StartPlayer(regions) = <<m>> \o (SendInterfaces \o SendState)
  BY ONLY <1>2 DEF StartPlayer
<1> DEFINE o == SendInterfaces \o SendState
           s == StartPlayer(regions)
<1>12. m \in Sound /\ m.type = "MapRegion" /\ o \in Seq(Sound) /\ Opening(o) /\ s = <<m>> \o o
  BY ONLY <1>4, <1>9, <1>10, <1>11
<1> HIDE DEF o, s
<1>13. s \in Seq(Sound)
  BY ONLY <1>12, InFront
<1>14. Entering(s)
  BY ONLY <1>12 DEF Entering
<1> QED
  BY ONLY <1>13, <1>14 DEF s

\* What has gone out is well formed: every tab is in a slot of the window, what
\* is open and touched hangs together, and every packet could be read.
WireShape ==
  /\ nameLength \in Nat /\ todo \in Seq(Sound) /\ window \in {0, kResizablePane, kFixedPane}
  /\ \A t \in tabs : InLayout(window, t)
  /\ NothingIntoClosed
  /\ \A c \in configs : c[2] = c[3]
  /\ \A s \in sizes : s \in Types \X Nat /\ Fits(s[1], s[2])

\* What is still to go out fits the client: it begins with a map or a pane, or
\* builds on what the client has open in the pane of the player's mode.
Pending ==
  \/ Entering(todo)
  \/ Opening(todo)
  \/ window = Pane /\ Plays(todo, window, {t[3] : t \in tabs})

WireInv == WireShape /\ Pending

\* The packets of a player who enters are pending.
LEMMA WireInitInv ==
  ASSUME InterfacesAssumption, WireInit
  PROVE  WireInv
<1>1. PICK regions \in MapRegions : todo = StartPlayer(regions)
  BY DEF WireInit
<1>2. nameLength \in Nat
  BY DEF WireInit, InterfacesAssumption
<1>3. todo \in Seq(Sound) /\ Entering(todo)
  BY <1>1, <1>2, StartPlayerEnters
<1>4. window = 0 /\ tabs = {} /\ touched = {} /\ configs = {} /\ sizes = {}
  BY DEF WireInit
<1> QED
  BY ONLY <1>2, <1>3, <1>4 DEF WireInv, WireShape, Pending, NothingIntoClosed

\* What a step leaves alone: the mode and the name, and with them what a packet
\* may be.
LEMMA SameMode ==
  ASSUME nameLength' = nameLength
  PROVE  Sound' = Sound /\ \A type, size : Fits(type, size)' = Fits(type, size)
<1>1. \A type, size : Fits(type, size)' = Fits(type, size)
  BY DEF Fits, kLongestName
<1> QED
  BY <1>1 DEF Sound, Fits, kLongestName

\* A packet goes out.
LEMMA SendKeepsInv ==
  ASSUME WireInv, Send
  PROVE  WireInv'
<1> DEFINE p == Head(todo)
           open == {t[3] : t \in tabs}
<1>1. /\ nameLength \in Nat /\ todo \in Seq(Sound) /\ window \in {0, kResizablePane, kFixedPane}
      /\ \A t \in tabs : InLayout(window, t)
      /\ \A t \in tabs : t[1] = window \/ \E u \in tabs : u[3] = t[1]
      /\ touched \subseteq open
      /\ \A c \in configs : c[2] = c[3]
      /\ \A s \in sizes : s \in Types \X Nat /\ Fits(s[1], s[2])
  BY DEF WireInv, WireShape, NothingIntoClosed
<1>2. /\ window' = IF p.type = "InterfaceWindowPane" THEN p.about[1] ELSE window
      /\ tabs' = IF p.type = "InterfaceWindowPane" THEN {}
                 ELSE IF p.type = "InterfaceTab" THEN tabs \cup {p.about} ELSE tabs
      /\ touched' = IF p.type = "InterfaceWindowPane" THEN {}
                    ELSE IF p.type \in Touches THEN touched \cup {p.about[1]} ELSE touched
      /\ configs' = IF p.type \in TellsConfig THEN configs \cup {p.about} ELSE configs
      /\ sizes' = sizes \cup {<<p.type, p.size>>}
      /\ todo # <<>> /\ todo' = Tail(todo)
      /\ display_mode' = display_mode /\ nameLength' = nameLength
  BY DEF Send
<1>3. Sound' = Sound /\ \A type, size : Fits(type, size)' = Fits(type, size)
  BY <1>2, SameMode
<1>4. Pane' = Pane /\ Pane \in {kResizablePane, kFixedPane}
  BY <1>2 DEF Pane, IsResizable
<1>5. p \in Sound /\ todo' \in Seq(Sound)
  BY <1>1, <1>2, HeadTailProperties
<1>6. p.type \in Types /\ p.size \in Nat /\ Fits(p.type, p.size) /\ (p.type \in TellsConfig => p.about[2] = p.about[3])
  BY <1>5 DEF Sound, WirePackets
<1>7. \A c \in configs' : c[2] = c[3]
  BY ONLY <1>1, <1>2, <1>6
<1>8. \A s \in sizes' : s \in Types \X Nat /\ Fits(s[1], s[2])
  BY ONLY <1>1, <1>2, <1>6
<1>9. (\A s \in sizes : s \in Types \X Nat /\ Fits(s[1], s[2]))'
  BY <1>3, <1>8 DEF Fits, kLongestName
<1>10. ASSUME \A t \in tabs' : InLayout(window', t),
              \A t \in tabs' : t[1] = window' \/ \E u \in tabs' : u[3] = t[1],
              touched' \subseteq {t[3] : t \in tabs'},
              window' \in {0, kResizablePane, kFixedPane}
       PROVE  WireShape'
  <2>1. NothingIntoClosed'
    BY ONLY <1>10 DEF NothingIntoClosed
  <2>2. nameLength' \in Nat /\ todo' \in Seq(Sound')
    BY ONLY <1>1, <1>2, <1>3, <1>5
  <2> QED
    BY ONLY <1>7, <1>9, <1>10, <2>1, <2>2 DEF WireShape, InLayout, Slots
<1>11. CASE Entering(todo)
  <2>1. PICK m \in Sound, e \in Seq(Sound) : m.type = "MapRegion" /\ Opening(e) /\ todo = <<m>> \o e
    BY <1>11 DEF Entering
  <2>2. p = m /\ todo' = e
    BY ONLY <1>2, <2>1, InFront
  <2>3. p.type # "InterfaceWindowPane" /\ p.type # "InterfaceTab" /\ p.type \notin Touches
    BY <2>1, <2>2 DEF Touches
  <2>4. window' = window /\ tabs' = tabs /\ touched' = touched
    BY ONLY <1>2, <2>3
  <2>5. WireShape'
    BY ONLY <1>1, <1>10, <2>4
  <2>6. Opening(todo)'
    BY ONLY <1>3, <1>4, <2>1, <2>2 DEF Opening, Builds
  <2> QED
    BY ONLY <2>5, <2>6 DEF WireInv, Pending
<1>12. CASE Opening(todo)
  <2>1. PICK w \in Sound, e \in Builds(Pane, {}) :
          w.type = "InterfaceWindowPane" /\ w.about[1] = Pane /\ todo = <<w>> \o e
    BY <1>12 DEF Opening
  <2>2. e \in Seq(Sound) /\ Plays(e, Pane, {})
    BY DEF Builds
  <2>3. p = w /\ todo' = e
    BY ONLY <1>2, <2>1, <2>2, InFront
  <2>4. window' = Pane /\ tabs' = {} /\ touched' = {}
    BY ONLY <1>2, <2>1, <2>3
  <2>5. WireShape'
    BY ONLY <1>4, <1>10, <2>4
  <2>6. {t[3] : t \in tabs'} = {}
    BY ONLY <2>4
  <2>7. Plays(todo', window', {t[3] : t \in tabs'}) /\ window' = Pane'
    BY ONLY <1>4, <2>2, <2>3, <2>4, <2>6
  <2> QED
    BY ONLY <2>5, <2>7 DEF WireInv, Pending
<1>13. CASE window = Pane /\ Plays(todo, window, open)
  <2> DEFINE more == {t[3] : t \in tabs'}
  <2>1. todo \in Seq(WirePackets) /\ todo # <<>>
    BY <1>1, <1>2, SoundArePackets
  <2>2. p.type # "InterfaceWindowPane"
    <3>1. open \subseteq open \cup {p.about[3]} /\ p.about[3] \in open \cup {p.about[3]}
      OBVIOUS
    <3> QED
      BY ONLY <1>13, <2>1, <3>1, PlaysTail
  <2>3. open \subseteq more /\ (p.type = "InterfaceTab" => p.about[3] \in more)
    BY ONLY <1>2, <2>2
  <2>4. /\ p.type = "InterfaceTab" =>
             InLayout(window, p.about) /\ (p.about[1] = window \/ p.about[1] \in open)
        /\ p.type \in Touches => p.about[1] \in open
        /\ Plays(todo', window, more)
    BY ONLY <1>2, <1>13, <2>1, <2>3, PlaysTail
  <2>5. window' = window
    BY ONLY <1>2, <2>2
  <2>6. \A t \in tabs' : InLayout(window', t)
    BY ONLY <1>1, <1>2, <2>2, <2>4, <2>5
  <2>7. \A t \in tabs' : t[1] = window' \/ \E u \in tabs' : u[3] = t[1]
    BY ONLY <1>1, <1>2, <2>2, <2>4, <2>5
  <2>8. touched' \subseteq more
    <3> HIDE DEF more
    <3> QED
      BY ONLY <1>1, <1>2, <2>2, <2>3, <2>4
  <2>9. WireShape'
    BY ONLY <1>1, <1>10, <2>5, <2>6, <2>7, <2>8
  <2>10. window' = Pane'
    BY ONLY <1>4, <1>13, <2>5
  <2> QED
    BY ONLY <2>4, <2>5, <2>9, <2>10 DEF WireInv, Pending
<1> QED
  BY ONLY <1>11, <1>12, <1>13, WireInv DEF WireInv, Pending

\* The player changes its screen: a layout is pending, whatever the mode.
LEMMA ScreenKeepsInv ==
  ASSUME WireInv, NEW chosen, ChangeScreen(chosen), Opening(SendInterfaces)', (SendInterfaces \in Seq(Sound))'
  PROVE  WireInv'
<1>1. /\ todo' = SendInterfaces'
      /\ nameLength' = nameLength /\ window' = window /\ tabs' = tabs /\ touched' = touched
      /\ configs' = configs /\ sizes' = sizes
  BY DEF ChangeScreen
<1>2. Sound' = Sound /\ \A type, size : Fits(type, size)' = Fits(type, size)
  BY <1>1, SameMode
<1>3. Opening(todo)' /\ todo' \in Seq(Sound')
  BY <1>1 DEF Opening, Builds
<1>4. (\A s \in sizes : s \in Types \X Nat /\ Fits(s[1], s[2]))'
  BY <1>1 DEF WireInv, WireShape, Fits, kLongestName
<1>5. WireShape'
  BY <1>1, <1>3, <1>4 DEF WireInv, WireShape, NothingIntoClosed, InLayout, Slots
<1> QED
  BY ONLY <1>3, <1>5 DEF WireInv, Pending

\* The interfaces that are pending are readable packets.
LEMMA InterfacesSound == SendInterfaces \in Seq(Sound)
<1>1. PICK p \in Sound, e \in Builds(Pane, {}) : SendInterfaces = <<p>> \o e
  BY InterfacesOpen DEF Opening
<1>2. e \in Seq(Sound)
  BY DEF Builds
<1> QED
  BY ONLY <1>1, <1>2, InFront, p \in Sound

\* What the client has open and what is pending go on fitting each other, in
\* every order of log-in, packets and changes of the screen.
LEMMA WireInvariant == WireInit /\ [][WireNext]_wireVars => []WireInv
<1>1. WireInit => WireInv
  BY WireInitInv, InterfacesAssumption
<1>2. ASSUME WireInv, [WireNext]_wireVars, Opening(SendInterfaces)', (SendInterfaces \in Seq(Sound))'
      PROVE  WireInv'
  <2>1. CASE Send
    BY ONLY <1>2, <2>1, SendKeepsInv
  <2>2. ASSUME NEW chosen \in 0 .. 3, ChangeScreen(chosen)
        PROVE  WireInv'
    BY ONLY <1>2, <2>2, ScreenKeepsInv
  <2>3. CASE UNCHANGED wireVars
    <3>1. /\ display_mode' = display_mode /\ nameLength' = nameLength /\ todo' = todo /\ window' = window /\ tabs' = tabs
          /\ touched' = touched /\ configs' = configs /\ sizes' = sizes
      BY <2>3 DEF wireVars
    <3>2. Sound' = Sound
      BY <3>1, SameMode
    <3>3. Pane' = Pane
      BY <3>1 DEF Pane, IsResizable
    <3>4. WireShape'
      BY <1>2, <3>1, <3>2 DEF WireInv, WireShape, NothingIntoClosed, InLayout, Slots, Fits, kLongestName
    <3>5. Pending'
      <4>1. CASE Entering(todo)
        <5>1. Entering(todo)'
          BY ONLY <3>1, <3>2, <3>3, <4>1 DEF Entering, Opening, Builds
        <5> QED
          BY ONLY <5>1 DEF Pending
      <4>2. CASE Opening(todo)
        <5>1. Opening(todo)'
          BY ONLY <3>1, <3>2, <3>3, <4>2 DEF Opening, Builds
        <5> QED
          BY ONLY <5>1 DEF Pending
      <4>3. CASE window = Pane /\ Plays(todo, window, {t[3] : t \in tabs})
        BY ONLY <3>1, <3>3, <4>3 DEF Pending
      <4> QED
        BY ONLY <1>2, <4>1, <4>2, <4>3 DEF WireInv, Pending
    <3> QED
      BY ONLY <3>4, <3>5 DEF WireInv
  <2> QED
    BY <1>2, <2>1, <2>2, <2>3 DEF WireNext
<1>3. [](Opening(SendInterfaces) /\ SendInterfaces \in Seq(Sound))
  BY InterfacesOpen, InterfacesSound, PTL
<1> QED
  BY <1>1, <1>2, <1>3, PTL

\* A slot of the window or of the chat holds one interface.
LEMMA OneTabFromLayout ==
  ASSUME WireInv
  PROVE  OneTabPerSlot
<1>1. ASSUME NEW t \in tabs, NEW u \in tabs, t[1] = u[1], t[2] = u[2]
      PROVE  t = u
  <2>1. InLayout(window, t) /\ InLayout(window, u) /\ window # 752
    BY DEF WireInv, WireShape, kResizablePane, kFixedPane
  <2>2. ASSUME NEW v, InLayout(window, v)
        PROVE  \/ v = <<752, 9, 137>> /\ v[1] = 752
               \/ \E e \in Slots(window) : v = <<window, e[1], e[2]>> /\ v[1] = window /\ v[2] = e[1] /\ v[3] = e[2]
    BY ONLY <2>2 DEF InLayout
  <2>3. CASE t[1] = 752
    <3>1. t = <<752, 9, 137>>
      BY ONLY <2>1, <2>2, <2>3
    <3>2. u = <<752, 9, 137>>
      <4>1. u[1] = 752
        BY ONLY <1>1, <2>3
      <4> QED
        BY ONLY <2>1, <2>2, <4>1
    <3> QED
      BY ONLY <3>1, <3>2
  <2>4. CASE t[1] # 752
    <3>1. PICK e \in Slots(window) : t = <<window, e[1], e[2]>> /\ t[2] = e[1] /\ t[3] = e[2]
      BY ONLY <2>1, <2>2, <2>4
    <3>2. PICK f \in Slots(window) : u = <<window, f[1], f[2]>> /\ u[2] = f[1] /\ u[3] = f[2]
      BY ONLY <1>1, <2>1, <2>2, <2>4
    <3>3. e = <<e[1], e[2]>> /\ f = <<f[1], f[2]>>
      BY DEF Slots, ResizableSlots, FixedSlots
    <3>4. e[2] = f[2]
      BY ONLY <1>1, <3>1, <3>2, <3>3, SlotsOnce
    <3> QED
      BY ONLY <1>1, <3>1, <3>2, <3>4
  <2> QED
    BY ONLY <2>3, <2>4
<1> QED
  BY ONLY <1>1 DEF OneTabPerSlot

\* Once everything is out the client shows the layout of the player's mode.
LEMMA LayoutFromInv ==
  ASSUME WireInv
  PROVE  LayoutFitsMode
<1>1. OneTabPerSlot
  BY OneTabFromLayout
<1>2. NothingIntoClosed
  BY DEF WireInv, WireShape
<1>3. ASSUME todo = <<>>
      PROVE  window = Pane /\ \A t \in tabs : t[1] \in {window, 752}
  <2>1. ~ Opening(todo) /\ ~ Entering(todo)
    <3>1. ASSUME NEW p \in Sound, NEW e \in Seq(Sound)
          PROVE  <<p>> \o e # <<>>
      BY ONLY InFront, p \in Sound, e \in Seq(Sound)
    <3>2. Builds(Pane, {}) \subseteq Seq(Sound)
      BY DEF Builds
    <3> QED
      BY ONLY <1>3, <3>1, <3>2 DEF Opening, Entering
  <2>2. window = Pane
    BY <2>1 DEF WireInv, Pending
  <2>3. ASSUME NEW t \in tabs
        PROVE  t[1] \in {window, 752}
    <3>1. InLayout(window, t)
      BY DEF WireInv, WireShape
    <3> QED
      BY ONLY <3>1 DEF InLayout
  <2> QED
    BY ONLY <2>2, <2>3
<1>4. TabsFitMode
  BY ONLY <1>3 DEF TabsFitMode
<1> QED
  BY ONLY <1>1, <1>2, <1>4 DEF LayoutFitsMode

\* Every packet that has gone out can be told from the others and taken apart.
LEMMA ReadableFromInv ==
  ASSUME WireInv
  PROVE  PacketsCanBeRead
<1>1. ASSUME NEW s \in sizes
      PROVE  s[1] \in Types /\ s[2] \in Nat /\ s = <<s[1], s[2]>> /\ Fits(s[1], s[2])
  BY DEF WireInv, WireShape
<1>2. ASSUME nameLength <= kLongestName, NEW s \in sizes
      PROVE  /\ \A t \in sizes : s[1] # t[1] => CodeBytes(s[1]) # CodeBytes(t[1])
             /\ LengthBytes(s[1]) = 0 => \A t \in sizes : s[1] = t[1] => s = t
             /\ LengthBytes(s[1]) > 0 => s[2] < <<256, 65536>>[LengthBytes(s[1])]
  <2>1. \A t \in sizes : s[1] # t[1] => CodeBytes(s[1]) # CodeBytes(t[1])
    BY ONLY <1>1, CodesDiffer, s \in sizes
  <2>2. LengthBytes(s[1]) = 0 => \A t \in sizes : s[1] = t[1] => s = t
    BY ONLY <1>1, s \in sizes DEF Fits
  <2>3. LengthBytes(s[1]) > 0 => s[2] < <<256, 65536>>[LengthBytes(s[1])]
    <3>1. /\ s[1] = "PlayerOption" => s[2] < 256
          /\ s[1] = "Message" => s[2] < 256
          /\ s[1] \in {"MapRegion", "InterfaceComponentText"} => s[2] < 65536
      BY ONLY <1>1, <1>2, s \in sizes DEF Fits
    <3> QED
      BY ONLY <3>1 DEF LengthBytes
  <2> QED
    BY ONLY <2>1, <2>2, <2>3
<1>3. FramesCanBeSeparated
  BY ONLY <1>2 DEF FramesCanBeSeparated
<1>4. ConfigsArriveWhole
  BY DEF WireInv, WireShape, ConfigsArriveWhole
<1> QED
  BY ONLY <1>3, <1>4 DEF PacketsCanBeRead

\* At every step of building its screen, after a log-in and after every change
\* of the mode, the client has the interfaces its mode calls for.
THEOREM LayoutAlwaysFitsMode == WireInit /\ [][WireNext]_wireVars => []LayoutFitsMode
BY WireInvariant, LayoutFromInv, PTL

\* Whatever the name and the maps, the client can take apart what it is sent,
\* and reads every configuration as it was set.
THEOREM PacketsAlwaysReadable == WireInit /\ [][WireNext]_wireVars => []PacketsCanBeRead
BY WireInvariant, ReadableFromInv, PTL
=============================================================================
