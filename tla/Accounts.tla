------------------------------ MODULE Accounts ------------------------------
(***************************************************************************)
(* Users, sessions and service accounts: src/internal/infra/api/auth.go    *)
(* and middleware.go over the tables of src/internal/infra/sql/            *)
(* auth_store.go, and the local command src/cmd/gomi/service_account.go,   *)
(* which issues a service account token into a file.                       *)
(*                                                                         *)
(* Every SQL statement and every file operation is a step; requests and    *)
(* invocations of the command overlap and may be cut off between steps.    *)
(* Passwords and tokens are numbers drawn in order.                        *)
(***************************************************************************)
EXTENDS Naturals, FiniteSets

CONSTANTS
    Users,        \* user names
    Callers,      \* concurrent requests and invocations of the command
    MaxSecrets,   \* bound on the passwords and tokens ever drawn
    MaxRotations  \* bound on rotations and deletions by the API, and on aborts

(* A caller that does nothing has some name or other. *)
ASSUME AccAssumption == Users # {}

VARIABLES
    users,        \* table users
    sessions,     \* table sessions: [token, user]
    account,      \* the row of one name in table service_accounts
    tokenFile,    \* the token file: "none", "partial" or "whole"
    fileToken,    \* the token in the file
    call,         \* what each running request has read so far
    lastSecret,   \* the last password or token drawn
    rotations,    \* rotations, deletions and aborts so far
    touched       \* the API rotated or deleted the account          (history)

accVars == <<users, sessions, account, tokenFile, fileToken, call, lastSecret, rotations, touched>>
rows == <<users, sessions, account>>
disk == <<tokenFile, fileToken>>

Roles == {"admin", "viewer"}
NoUser == [exists |-> FALSE, role |-> "viewer", password |-> 0]
NoAccount == [exists |-> FALSE, role |-> "viewer", hash |-> 0, lastUsed |-> 0]
Quiet == [op |-> "idle", name |-> CHOOSE u \in Users : TRUE,
          seen |-> NoUser, account |-> NoAccount, token |-> 0]

AccInit ==
    /\ users = [u \in Users |-> NoUser]
    /\ sessions = {}
    /\ account = NoAccount
    /\ tokenFile = "none" /\ fileToken = 0
    /\ call = [p \in Callers |-> Quiet]
    /\ lastSecret = 0 /\ rotations = 0
    /\ touched = FALSE

Secret == lastSecret < MaxSecrets /\ lastSecret' = lastSecret + 1
Next_(p, r) == call' = [call EXCEPT ![p] = r]
Start(p, r) == call[p].op = "idle" /\ Next_(p, r)
Ends(p) == Next_(p, Quiet)

-----------------------------------------------------------------------------
(* UpsertUser *)
PutUser(u, role, password) ==
    users' = [users EXCEPT ![u] = [exists |-> TRUE, role |-> role, password |-> password]]

(* createUser: a user of that name with a new password. *)
NewUser(u, role) == Secret /\ PutUser(u, role, lastSecret')

(* The first administrator: CountUsers, then the insert.  Two set-ups may   *)
(* both find no user.  ensureBootstrapAdmin does the same at start-up.      *)
SetupCheck(p, u) ==
    /\ \A v \in Users : ~users[v].exists
    /\ Start(p, [Quiet EXCEPT !.op = "setup", !.name = u])
    /\ UNCHANGED <<rows, disk, lastSecret, rotations, touched>>
SetupWrite(p) ==
    /\ call[p].op = "setup"
    /\ NewUser(call[p].name, "admin")
    /\ Ends(p)
    /\ UNCHANGED <<sessions, account, disk, rotations, touched>>

(* CreateUser by an administrator, also for a user who exists. *)
CreateUser(u, role) ==
    /\ \E v \in Users : users[v].role = "admin"
    /\ NewUser(u, role)
    /\ UNCHANGED <<sessions, account, disk, call, rotations, touched>>

(* login: the user is read and the password compared, then the session is   *)
(* inserted.                                                                *)
LoginRead(p, u) ==
    /\ users[u].exists
    /\ Start(p, [Quiet EXCEPT !.op = "login", !.name = u])
    /\ UNCHANGED <<rows, disk, lastSecret, rotations, touched>>
LoginWrite(p) ==
    /\ call[p].op = "login"
    /\ Secret
    /\ sessions' = sessions \cup {[token |-> lastSecret', user |-> call[p].name]}
    /\ Ends(p)
    /\ UNCHANGED <<users, account, disk, rotations, touched>>
(* Logout, or a session found past its end. *)
DropSession(s) ==
    /\ s \in sessions
    /\ sessions' = sessions \ {s}
    /\ UNCHANGED <<users, account, disk, call, lastSecret, rotations, touched>>

(* ChangeMyPassword: the middleware authenticates the session and reads the *)
(* user, the handler reads the user again, compares the current password    *)
(* and writes the whole row.                                                *)
Authenticate(p, s) ==
    /\ s \in sessions
    /\ Start(p, [Quiet EXCEPT !.op = "session", !.name = s.user])
    /\ UNCHANGED <<rows, disk, lastSecret, rotations, touched>>
PasswordRead(p) ==
    /\ call[p].op = "session"
    /\ Next_(p, [call[p] EXCEPT !.op = "password", !.seen = users[call[p].name]])
    /\ UNCHANGED <<rows, disk, lastSecret, rotations, touched>>
PasswordWrite(p) ==
    /\ call[p].op = "password"
    /\ Secret
    /\ PutUser(call[p].name, call[p].seen.role, lastSecret')
    /\ Ends(p)
    /\ UNCHANGED <<sessions, account, disk, rotations, touched>>

-----------------------------------------------------------------------------
(* CreateServiceAccount rotates the token of an account that exists. *)
Rotate == rotations < MaxRotations /\ rotations' = rotations + 1
RotateAccount(role) ==
    /\ Rotate
    /\ Secret
    /\ account' = [exists |-> TRUE, role |-> role, hash |-> lastSecret', lastUsed |-> 0]
    /\ touched' = TRUE
    /\ UNCHANGED <<users, sessions, disk, call>>
DeleteAccount ==
    /\ Rotate
    /\ account.exists
    /\ account' = NoAccount
    /\ touched' = TRUE
    /\ UNCHANGED <<users, sessions, disk, call, lastSecret>>

(* AuthMiddleware for a service account: the row with the token's hash is   *)
(* found, then its use is recorded.                                         *)
AccountRead(p) ==
    /\ account.exists
    /\ Start(p, [Quiet EXCEPT !.op = "use", !.account = account])
    /\ UNCHANGED <<rows, disk, lastSecret, rotations, touched>>
(* The row MarkServiceAccountUsed updates: name and token must match. *)
UsedBy(hash) == account.exists /\ account.hash = hash
AccountUsed(p) ==
    /\ call[p].op = "use"
    /\ account' = IF UsedBy(call[p].account.hash)
                  THEN [account EXCEPT !.lastUsed = call[p].account.hash] ELSE account
    /\ Ends(p)
    /\ UNCHANGED <<users, sessions, disk, lastSecret, rotations, touched>>

-----------------------------------------------------------------------------
(* ensureServiceAccountFile: look the account up... *)
CLILookup(p) ==
    /\ Start(p, [Quiet EXCEPT !.op = "lookup", !.account = account])
    /\ UNCHANGED <<rows, disk, lastSecret, rotations, touched>>
(* ...look at the token file, read it, and refuse a partial one...          *)
CLIReadFile(p) ==
    /\ call[p].op = "lookup"
    /\ CASE tokenFile = "whole" -> Next_(p, [call[p] EXCEPT !.op = "token", !.token = fileToken])
         [] tokenFile = "partial" -> Ends(p)
         [] OTHER -> IF call[p].account.exists THEN Ends(p)
                     ELSE Next_(p, [call[p] EXCEPT !.op = "absent"])
    /\ UNCHANGED <<rows, disk, lastSecret, rotations, touched>>
(* Bug: a file that appeared meanwhile is overwritten. *)
AnyCreate == TRUE
(* O_EXCL: only a file that is not there is created. *)
Creates == tokenFile = "none"
(* ...or create it, unless another invocation did so meanwhile, and write it. *)
CLICreateFile(p) ==
    /\ call[p].op = "absent"
    /\ IF Creates
       THEN /\ Secret
            /\ tokenFile' = "partial"
            /\ fileToken' = lastSecret'
            /\ Next_(p, [call[p] EXCEPT !.op = "write", !.token = lastSecret'])
       ELSE Ends(p) /\ UNCHANGED <<disk, lastSecret>>
    /\ UNCHANGED <<rows, rotations, touched>>
CLIWriteFile(p) ==
    /\ call[p].op = "write"
    /\ tokenFile' = "whole" /\ fileToken' = call[p].token
    /\ Next_(p, [call[p] EXCEPT !.op = "token"])
    /\ UNCHANGED <<rows, lastSecret, rotations, touched>>
(* The role the command is given; the account must have it too. *)
CLIRole == "viewer"
Agrees(row, token) == row.exists /\ row.hash = token /\ row.role = CLIRole
Verdict(p, row) == Next_(p, IF Agrees(row, call[p].token) THEN [call[p] EXCEPT !.op = "done"] ELSE Quiet)
(* An account found at the start is compared, otherwise one is inserted;    *)
(* InsertServiceAccount leaves a row of that name as it is.                 *)
CLICompare(p) ==
    /\ call[p].op = "token"
    /\ call[p].account.exists
    /\ Verdict(p, call[p].account)
    /\ UNCHANGED <<rows, disk, lastSecret, rotations, touched>>
CLIInsert(p) ==
    /\ call[p].op = "token"
    /\ ~call[p].account.exists
    /\ account' = IF account.exists THEN account
                  ELSE [NoAccount EXCEPT !.exists = TRUE, !.hash = call[p].token, !.role = CLIRole]
    /\ Verdict(p, account')
    /\ UNCHANGED <<users, sessions, disk, lastSecret, rotations, touched>>
(* The command reports success and ends. *)
CLIReport(p) ==
    /\ call[p].op = "done"
    /\ Ends(p)
    /\ UNCHANGED <<rows, disk, lastSecret, rotations, touched>>

(* A request or an invocation is cut off. *)
AbortCall(p) ==
    /\ Rotate
    /\ call[p].op # "idle"
    /\ Ends(p)
    /\ UNCHANGED <<rows, disk, lastSecret, touched>>

CLIStep(p) == CLIReadFile(p) \/ CLICreateFile(p) \/ CLIWriteFile(p) \/ CLICompare(p)
                  \/ CLIInsert(p) \/ CLIReport(p)
AccNext ==
    \/ \E p \in Callers, u \in Users : SetupCheck(p, u) \/ LoginRead(p, u)
    \/ \E p \in Callers, s \in sessions : Authenticate(p, s)
    \/ \E p \in Callers :
          \/ SetupWrite(p) \/ LoginWrite(p) \/ PasswordRead(p) \/ PasswordWrite(p)
          \/ AccountRead(p) \/ AccountUsed(p) \/ CLILookup(p) \/ CLIStep(p) \/ AbortCall(p)
    \/ \E u \in Users, r \in Roles : CreateUser(u, r)
    \/ \E s \in sessions : DropSession(s)
    \/ \E r \in Roles : RotateAccount(r)
    \/ DeleteAccount
AccSpec == AccInit /\ [][AccNext]_accVars

-----------------------------------------------------------------------------
(* The command reports success only with the account's token in the file,   *)
(* also when two invocations race or one was cut off and repeated, and it   *)
(* leaves no account whose token is in no file, unless the API meddled; the *)
(* recorded use of an account is one of its present token, also when a      *)
(* rotation falls between the admission of a request and its record.        *)
IssuedTokenIsKept ==
    /\ account.lastUsed \in {0, account.hash}
    /\ ~touched => /\ account.exists => tokenFile = "whole" /\ fileToken = account.hash
                   /\ \A p \in Callers : call[p].op = "done" => account.hash = fileToken
=============================================================================
