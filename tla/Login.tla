------------------------------- MODULE Login -------------------------------
(***************************************************************************)
(* LoginPacketHandler::HandleLoginWorld on a server that has started: the  *)
(* checks of a login in their order, the account it finds or registers,    *)
(* and what can end the process before the player is in the world.         *)
(***************************************************************************)
EXTENDS Startup, Accounts, FiniteSets

CONSTANTS
  Names, Passwords, Salts,   \* what a client and the generator may choose
  Skins,                     \* colours of a skin, of 0 .. 500
  kMaxSums,                  \* checksums a client is asked for: 32
  kMaxId,                    \* the greatest number of an account in 16 bits
  Nobody                     \* no player

ASSUME LoginAssumption == kMaxSums \in Nat /\ kMaxId \in Nat /\ Nobody \notin Names

VARIABLES
  rows,        \* the table of accounts; it outlives the process
  registered,  \* history: the account as it was when its name was registered
  player,      \* in memory after the last login, or Nobody
  proof,       \* history: the password and the checksums of that login
  reply        \* to the last client: an error, "details" or "none"

accountVars == <<rows, registered>>
sessionVars == <<player, proof, reply>>
vars == <<startVars, accountVars, sessionVars>>

TypeOK ==
  /\ StartTypeOK
  /\ \A i \in 1 .. Len(rows) : DOMAIN rows[i].row = Columns /\ rows[i].row.username \in Names
  /\ DOMAIN registered \subseteq Names
  /\ player = Nobody \/ player.account.username \in Names
  /\ reply \in {"none", "kErrorSession", "kErrorInvalidLogin", "kErrorInvalidLoginServer", "kClientOutdated", "details"}

NoSession == player = Nobody /\ proof = <<>> /\ reply = "none"

Init == StartInit /\ rows = <<>> /\ registered = <<>> /\ NoSession

\* The packet: how far it can be read ("cut" before the size of its block, "no
\* block" where that is too great, "broken" later, "bad name" at the password or
\* the name), and the checksums of the client: how many, and which are right.
Packets == [read : {"cut", "no block", "broken", "bad name", "whole"}, name : Names, password : Passwords,
            sums : 0 .. kMaxSums, right : SUBSET (0 .. kMaxSums - 1)]

\* (Seeded defect.) Only the last checksum counts.
SumFailsAtEnd(p, i) == i \notin stores \/ i >= p.sums \/ (i \notin p.right /\ i + 1 = kMaxSums)

\* Where the loop over the checksums stops: GetStore throws for a number
\* without a store, a sum is missing, or it differs.
SumFails(p, i) == i \notin stores \/ i >= p.sums \/ i \notin p.right

SumCount == IF Cardinality(stores) < kMaxSums THEN Cardinality(stores) ELSE kMaxSums

\* (Seeded defect.) One sum too many is asked for.
FailingSumsToTheEnd(p) == {i \in 0 .. SumCount : SumFails(p, i)}

FailingSums(p) == {i \in 0 .. SumCount - 1 : SumFails(p, i)}
FirstFailing(p) == CHOOSE i \in FailingSums(p) : \A j \in FailingSums(p) : i <= j

\* DatabaseManager::GetModel and CreateModel know two modes; in any other one
\* nothing is found and nothing is kept.
KnownMode == mode \in {"mysql", "sqlite"}
Found(name) == IF KnownMode THEN Select(rows, name) ELSE {}

\* The history, with the account of a name that had none.
Registered(name, account) ==
  [n \in DOMAIN registered \cup {name} |-> IF n \in DOMAIN registered THEN registered[n] ELSE account]

Refuse(opcode) ==
  /\ reply' = opcode /\ player' = Nobody /\ proof' = <<>>
  /\ UNCHANGED <<startVars, accountVars>>

End == phase' = "aborted" /\ player' = Nobody /\ proof' = <<>> /\ reply' = "none"

\* An exception nothing catches, before anything is kept.
Abort == End /\ UNCHANGED <<mode, fileVars, next, stores, described, accountVars>>

\* SendLoginDetails and StartPlayer throw for a number of an account that is too
\* great, for a config.json of the cache that was not read, and for names of the
\* server that are not there.
EntryThrows(id) == id > kMaxId \/ keys = "none" \/ "server" \notin settings

\* What follows once the player is known.  Without some keys of the maps it ends
\* or not: [] on a constant object that lacks the member is undefined, and keys
\* that are no numbers throw where the map of the player has them.
Enter(p, account, id) ==
  /\ \/ (EntryThrows(id) \/ keys = "partly") /\ End
     \/ /\ ~EntryThrows(id)
        /\ player' = [account |-> account, id |-> id] /\ reply' = "details"
        /\ proof' = <<p.password, p.right>>
        /\ UNCHANGED phase
  /\ UNCHANGED <<mode, fileVars, next, stores, described>>

Ready == phase = "serving" /\ player = Nobody

\* The block is there to be decrypted, with two numbers from config.json.
HasBlock(p) == Ready /\ p.read \notin {"cut", "no block"}
CannotDecrypt(p) == HasBlock(p) /\ "login" \notin settings /\ Abort
Decrypted(p) == HasBlock(p) /\ "login" \in settings

\* The checks before the accounts are asked.
Unreadable(p) ==
  \/ Ready /\ p.read = "cut" /\ Refuse("none")
  \/ Ready /\ p.read = "no block" /\ Refuse("kErrorSession")
  \/ Decrypted(p) /\ p.read = "broken" /\ Refuse("kErrorSession")
  \/ Decrypted(p) /\ p.read = "bad name" /\ Refuse("kErrorInvalidLogin")

SumsDiffer(p) ==
  /\ Decrypted(p) /\ p.read = "whole" /\ FailingSums(p) # {}
  /\ LET i == FirstFailing(p)
     IN  IF i \notin stores THEN Abort
         ELSE Refuse(IF i >= p.sums THEN "kErrorSession" ELSE "kClientOutdated")

Accepted(p) == Decrypted(p) /\ p.read = "whole" /\ FailingSums(p) = {}

\* What the database throws, in GetModel or in CreateModel, nothing catches; a
\* row is not written then.
DatabaseThrows(p) == Accepted(p) /\ KnownMode /\ database = "fails" /\ Abort
Asked(p) == Accepted(p) /\ (KnownMode => database = "works")

\* A new player has no place to begin at.
NowhereToStart(p) == Asked(p) /\ Found(p.name) = {} /\ "starting_location" \notin settings /\ Abort

\* (Seeded defect.) The account is kept once the player has entered.
RegisterLate(p) ==
  /\ Asked(p) /\ Found(p.name) = {} /\ "starting_location" \in settings
  /\ \E salt \in Salts, looks \in {Male, Female}, skin \in Skins :
       LET account == NewAccount(p.name, p.password, salt, looks, skin)
           id == IF KnownMode THEN Len(rows) + 1 ELSE 0
       IN  /\ Enter(p, account, id)
           /\ rows' = IF KnownMode /\ player' # Nobody THEN Insert(rows, account) ELSE rows
           /\ registered' = IF KnownMode THEN Registered(p.name, account) ELSE registered

Register(p) ==
  /\ Asked(p) /\ Found(p.name) = {} /\ "starting_location" \in settings
  /\ \E salt \in Salts, looks \in {Male, Female}, skin \in Skins :
       LET account == NewAccount(p.name, p.password, salt, looks, skin)
           id == IF KnownMode THEN Len(rows) + 1 ELSE 0
       IN  /\ rows' = IF KnownMode THEN Insert(rows, account) ELSE rows
           /\ registered' = IF KnownMode THEN Registered(p.name, account) ELSE registered
           /\ Enter(p, account, id)

\* (Seeded defect.) The refusal of a password does not return.
LogInRefused(p) ==
  \E i \in Found(p.name) :
    Asked(p) /\ Enter(p, Selected(rows[i].row), rows[i].id) /\ UNCHANGED accountVars

LogIn(p) ==
  /\ Asked(p) /\ Found(p.name) # {}
  /\ UNCHANGED accountVars
  /\ IF Cardinality(Found(p.name)) # 1 THEN Refuse("kErrorInvalidLoginServer")
     ELSE LET r == rows[CHOOSE i \in Found(p.name) : TRUE]
          IN  IF CheckPassword(Selected(r.row), p.password)
              THEN Enter(p, Selected(r.row), r.id)
              ELSE Refuse("kErrorInvalidLogin")

\* The session goes; nothing of the account is written back.
Leave ==
  /\ phase = "serving" /\ player # Nobody
  /\ player' = Nobody /\ proof' = <<>> /\ reply' = "none"
  /\ UNCHANGED <<startVars, accountVars>>

\* The process is killed while it serves.
Kill ==
  /\ phase = "serving" /\ phase' = "killed"
  /\ player' = Nobody /\ proof' = <<>> /\ reply' = "none"
  /\ UNCHANGED <<mode, fileVars, next, stores, described, accountVars>>

Next ==
  \/ (Start \/ Restart \/ DatabaseChanges) /\ UNCHANGED <<accountVars, sessionVars>>
  \/ \E p \in Packets : \/ CannotDecrypt(p) \/ Unreadable(p) \/ SumsDiffer(p)
                       \/ DatabaseThrows(p) \/ NowhereToStart(p) \/ Register(p) \/ LogIn(p)
  \/ Leave \/ Kill

\* main goes on with its start by itself.
Spec == Init /\ [][Next]_vars /\ WF_startVars(Start)

-----------------------------------------------------------------------------
(* Properties *)

\* A player in the world with a number has the account of its name, every
\* column of it as it was registered, whatever restarts came between.
AccountsReadBack ==
  player # Nobody /\ player.id # 0 => player.account = registered[player.account.username]

\* Each name registered is in one row, and a row is never a second one of its
\* name, though the process may end right after it wrote the row.
OneRowPerName ==
  /\ {rows[i].row.username : i \in 1 .. Len(rows)} = DOMAIN registered
  /\ \A i, j \in 1 .. Len(rows) : rows[i].row.username = rows[j].row.username => i = j

\* What was registered is kept: one account for each name, as it was.
AccountsKept == AccountsReadBack /\ OneRowPerName

\* Nobody plays an account with another password than the one it was
\* registered with, nor with a cache that differs in a checksum asked for.
OwnersOnly ==
  player # Nobody =>
    /\ player.id # 0 => player.account.password[1] = registered[player.account.username].password[1]
    /\ player.id # 0 => proof[1] = registered[player.account.username].password[1]
    /\ \A i \in 0 .. SumCount - 1 : i \in stores /\ i \in proof[2]

\* A server set up as it should be is ended by no login, whatever its packet
\* holds: one that ends finds a gap in the stores, a setting or a key of a map
\* missing, a database that fails, or an account whose number does not fit.
OnlySetupStops ==
  [][phase = "serving" /\ phase' = "aborted" =>
       \/ \E i \in 0 .. SumCount - 1 : i \notin stores
       \/ settings # ConfigKeys \/ keys # "whole"
       \/ database = "fails"
       \/ \E i \in 1 .. Len(rows') : rows'[i].id > kMaxId]_vars
=============================================================================
