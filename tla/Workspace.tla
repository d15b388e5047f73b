------------------------------ MODULE Workspace ------------------------------
(***************************************************************************)
(* The workspace on disk: the SQLite database, the blob files beside it    *)
(* and the backup bundles, used by processes that share only the workspace *)
(* lock.  An article's text is in a file, its revisions are in rows, and   *)
(* no transaction covers both; a row stands for the article and its latest *)
(* revision.  A process has one connection, so that what a failed          *)
(* operation of it wrote waits for the next commit of any other.  Restore  *)
(* replaces database and files by those of a bundle, without the lock.     *)
(***************************************************************************)
EXTENDS Naturals, FiniteSets

CONSTANTS
    Procs,          (* processes that open the workspace: the API, a command *)
    Articles, Seed, (* articles, and the one a new database is seeded with   *)
    Texts,          (* what a user saves                                     *)
    WorkScopes,     (* what a behaviour exercises                            *)
    Retain,         (* bundles kept                                          *)
    Interval,       (* age at which a bundle is renewed                      *)
    MaxTime,        (* bound: the clock                                      *)
    MaxTrouble,     (* bound: crashes, failing disk operations, damage       *)
    Keys            (* credential keys, in the order of their creation       *)

Slots == {"token", "url"}  (* connections.token, browser_connections.app_url *)
Ops == {"create", "save", "title", "asset", "delete", "reset", "backup", "due", "restore",
        "secret", "erase", "rotate", "retire"}
Troubles == {"crash", "disk", "damage", "replace"}
WorkRisks == {"crash_delete", "crash_restore", "replace_early", "online", "early", "old"}

ASSUME WorkAssumption ==
    /\ Seed \in Articles /\ Texts \cap {"none", "new", "cut", "seed"} = {}
    /\ WorkScopes \subseteq SUBSET (Ops \cup Troubles \cup WorkRisks)
    /\ Retain \in Nat \ {0} /\ Interval \in Nat \ {0} /\ {MaxTime, MaxTrouble} \subseteq Nat
    /\ Keys \subseteq Nat \ {0} /\ 1 \in Keys

VARIABLES
    workScope,  (* the operations and the troubles of this behaviour         *)
    db,         (* the committed database at its path, or NoDb               *)
    files,      (* the blob directory at its path, or NoFiles                *)
    pending,    (* what each connection wrote and has not committed, or NoDb *)
    op,         (* what each process is doing                                *)
    up,         (* the processes whose store is open                         *)
    bundles,    (* the published backups                                     *)
    swap,       (* the restore under way, or the last one                    *)
    torn,       (* articles whose last save was cut off, a history           *)
    latest,     (* the last secret given for each slot, a history            *)
    keyring,    (* credential-keys.json; settled: started since it changed   *)
    clock, trouble

diskVars == <<db, files>>
secretVars == <<latest, keyring>>
workVars == <<workScope, db, files, pending, op, up, bundles, swap, torn, latest, keyring,
              clock, trouble>>

-----------------------------------------------------------------------------

Text == Texts \cup {"cut", "seed"}                    (* "cut": a file half written *)
NoSecret == [row |-> FALSE, key |-> 0, val |-> 0]
Secret == [row: {TRUE}, key: Keys \cup {0}, val: 0..2] \cup {NoSecret}
Database == [rows: [Articles -> Text \cup {"none", "new"}], assets: SUBSET Articles,
             secrets: [Slots -> Secret]]              (* "new": without a revision  *)
NoDb == [rows |-> "missing"]
Directory == [body: [Articles -> Text \cup {"none"}], assets: SUBSET Articles]
NoFiles == [body |-> "missing"]
EmptyDb == [rows |-> [a \in Articles |-> "none"], assets |-> {},
            secrets |-> [s \in Slots |-> NoSecret]]
EmptyFiles == [body |-> [a \in Articles |-> "none"], assets |-> {}]
Bundle == [at: 0..MaxTime, db: Database, files: Directory, torn: SUBSET Articles, sound: BOOLEAN]
Operation == [do: Ops \cup {"idle", "start"},
              pc: {"idle", "write", "commit", "rmtree", "copy", "publish", "tokens", "urls",
                   "seed", "revise"},
              art: Articles, text: Text, snap: Database \cup {NoDb},
              copy: Directory \cup {NoFiles}]
Idle == [do |-> "idle", pc |-> "idle", art |-> Seed, text |-> "seed", snap |-> NoDb,
         copy |-> NoFiles]
Restore == [pc: {"idle", "db_out", "files_out", "db_in", "files_in", "drop_db", "drop_files",
                 "done", "failed", "cut"},
            new: Bundle \cup {NoDb},
            old: [db: Database, files: Directory] \cup {NoDb},
            rolled: [db: Database \cup {NoDb}, files: Directory \cup {NoFiles}]]
NoRestore == [pc |-> "idle", new |-> NoDb, old |-> NoDb,
              rolled |-> [db |-> NoDb, files |-> NoFiles]]

WorkDoes(o) == o \in workScope
Trouble(o) == WorkDoes(o) /\ trouble < MaxTrouble /\ trouble' = trouble + 1

Locked(p) == op[p].do \notin {"idle", "rotate"}
Free(p) == op[p] = Idle /\ \A q \in Procs : ~Locked(q)
MayBegin(p, o) == WorkDoes(o) /\ p \in up /\ Free(p)
To(p, o) == op' = [op EXCEPT ![p] = o]
Goto(p, pc) == To(p, [op[p] EXCEPT !.pc = pc])
Doing(p, o, pc) == op[p].do = o /\ op[p].pc = pc

(* A connection sees its own writes; SQLite lets one connection write.     *)
View(p) == IF pending[p] # NoDb THEN pending[p] ELSE db
CanWrite(p) == \A q \in Procs \ {p} : pending[q] = NoDb
Commit(p, d) == db' = d /\ pending' = [pending EXCEPT ![p] = NoDb]
Row(p, a) == View(p).rows[a]

(* _read_body: the file, or the row's own body, which is empty.            *)
ReadBody(a) == IF files.body[a] = "none" THEN "cut" ELSE files.body[a]
WriteBody(a, text) == files' = [files EXCEPT !.body[a] = text]
Revised(d) == [d EXCEPT !.rows = [a \in Articles |-> IF @[a] = "new" THEN ReadBody(a) ELSE @[a]]]

-----------------------------------------------------------------------------

(* Articles and assets.                                                    *)

(* An identifier is new: nothing has its name, not even a row that waits   *)
(* for the commit of its deletion.                                         *)
BeginCreate(p, a, text) ==
    /\ MayBegin(p, "create") /\ db.rows[a] = "none" /\ files.body[a] = "none"
    /\ To(p, [Idle EXCEPT !.do = "create", !.pc = "write", !.art = a, !.text = text])
    /\ UNCHANGED <<workScope, diskVars, pending, up, bundles, swap, torn, secretVars, clock, trouble>>

(* Seeded fault: saves of two processes do not exclude each other.         *)
SavesTogether(p) == p \in up /\ op[p] = Idle
MaySave(p) == p \in up /\ Free(p)
(* A new text, or a new title with the text that is read from the file.    *)
BeginSave(p, a, text) ==
    /\ MaySave(p) /\ Row(p, a) \notin {"none", "new"}
    /\ \/ WorkDoes("save") /\ text \in Texts /\ text # Row(p, a)
       \/ WorkDoes("title") /\ text = ReadBody(a)
    /\ To(p, [Idle EXCEPT !.do = "save", !.pc = "write", !.art = a, !.text = text])
    /\ UNCHANGED <<workScope, diskVars, pending, up, bundles, swap, torn, secretVars, clock, trouble>>

BeginAsset(p, a) ==
    /\ MayBegin(p, "asset") /\ Row(p, a) # "none"
    /\ To(p, [Idle EXCEPT !.do = "asset", !.pc = "write", !.art = a])
    /\ UNCHANGED <<workScope, diskVars, pending, up, bundles, swap, torn, secretVars, clock, trouble>>

Write(p) ==
    /\ op[p].pc = "write"
    /\ IF op[p].do = "asset" THEN files' = [files EXCEPT !.assets = @ \cup {op[p].art}]
       ELSE WriteBody(op[p].art, op[p].text)
    /\ Goto(p, "commit")
    /\ UNCHANGED <<workScope, db, pending, up, bundles, swap, torn, secretVars, clock, trouble>>

Written(d, o) ==
    IF o.do = "asset" THEN [d EXCEPT !.assets = @ \cup {o.art}]
    ELSE [d EXCEPT !.rows[o.art] = o.text]
CommitWrite(p) ==
    /\ op[p].pc = "commit" /\ op[p].do # "delete" /\ CanWrite(p)
    /\ Commit(p, Written(View(p), op[p]))
    /\ torn' = IF op[p].do = "asset" THEN torn ELSE torn \ {op[p].art}
    /\ To(p, Idle)
    /\ UNCHANGED <<workScope, files, up, bundles, swap, secretVars, clock, trouble>>

(* "database is locked": the file stays as it was written.                 *)
Cut(p) == IF op[p].do = "save" /\ op[p].pc \in {"write", "commit"} THEN {op[p].art} ELSE {}
WriteRefused(p) ==
    /\ op[p].pc = "commit" /\ ~CanWrite(p)
    /\ torn' = torn \cup Cut(p)
    /\ To(p, Idle)
    /\ UNCHANGED <<workScope, diskVars, pending, up, bundles, swap, secretVars, clock, trouble>>

(* delete_articles: the row is deleted but not committed, the files are    *)
(* removed, and then the deletion is committed.                            *)
BeginDelete(p, a) ==
    /\ MayBegin(p, "delete") /\ Row(p, a) # "none" /\ CanWrite(p)
    /\ pending' = [pending EXCEPT ![p] =
          [View(p) EXCEPT !.rows[a] = "none", !.assets = @ \ {a}]]
    /\ To(p, [Idle EXCEPT !.do = "delete", !.pc = "rmtree", !.art = a])
    /\ UNCHANGED <<workScope, diskVars, up, bundles, swap, torn, secretVars, clock, trouble>>

Emptied(d, a) == [d EXCEPT !.body[a] = "none", !.assets = @ \ {a}]
RemoveFiles(p) ==
    /\ op[p].pc = "rmtree"
    /\ \/ op[p].do = "delete" /\ files' = Emptied(files, op[p].art) /\ Goto(p, "commit")
       \/ op[p].do = "reset" /\ files' = EmptyFiles /\ Goto(p, "seed")
    /\ UNCHANGED <<workScope, db, pending, up, bundles, swap, torn, secretVars, clock, trouble>>

CommitDelete(p) ==
    /\ Doing(p, "delete", "commit")
    /\ Commit(p, View(p)) /\ To(p, Idle)
    /\ torn' = torn \ {op[p].art}
    /\ UNCHANGED <<workScope, files, up, bundles, swap, secretVars, clock, trouble>>

(* Any write of the process commits what a failed operation left.          *)
CommitLeftover(p) ==
    /\ p \in up /\ op[p] = Idle /\ pending[p] # NoDb
    /\ Commit(p, pending[p])
    /\ UNCHANGED <<workScope, files, op, up, bundles, swap, torn, secretVars, clock, trouble>>

BeginReset(p) ==
    /\ MayBegin(p, "reset") /\ CanWrite(p)
    /\ Commit(p, EmptyDb)
    /\ To(p, [Idle EXCEPT !.do = "reset", !.pc = "rmtree"])
    /\ torn' = {} /\ latest' = [s \in Slots |-> 0]
    /\ UNCHANGED <<workScope, files, up, bundles, swap, keyring, clock, trouble>>

-----------------------------------------------------------------------------

(* Opening the store: re-encrypt the secrets, seed, give every article a   *)
(* revision.  A secret that cannot be decrypted refuses the start.         *)

Readable(secret) == secret.key = 0 \/ secret.key \in keyring.keys
(* Seeded fault: a key that is still there is good enough.                 *)
AnyKey(secret) == ~Readable(secret)
NeedsReencryption(secret) == secret.key \notin {0, keyring.active}
Reencrypted(d, slot, secret) ==
    IF d.secrets[slot].row THEN [d EXCEPT !.secrets[slot] = [secret EXCEPT !.key = keyring.active]]
    ELSE d
Reencrypt(p, slot) ==
    LET secret == op[p].snap.secrets[slot] IN
    /\ CanWrite(p)
    /\ IF NeedsReencryption(secret) THEN Commit(p, Reencrypted(View(p), slot, secret))
       ELSE UNCHANGED <<db, pending>>

Start(p) ==
    /\ workScope # {} /\ p \notin up /\ Free(p)
    /\ swap.pc \in {"idle", "done", "failed", "cut"}
    /\ LET d == IF db = NoDb THEN EmptyDb ELSE db IN
       /\ db' = d /\ Readable(d.secrets["token"])
       /\ files' = IF files = NoFiles THEN EmptyFiles ELSE files
       /\ To(p, [Idle EXCEPT !.do = "start", !.pc = "tokens", !.snap = d])
    /\ swap' = NoRestore
    /\ UNCHANGED <<workScope, pending, up, bundles, torn, secretVars, clock, trouble>>

(* What is replaced was read before; other processes write without the lock. *)
ReencryptTokens(p) ==
    /\ op[p].pc = "tokens" /\ Reencrypt(p, "token")
    /\ IF op[p].do = "rotate" \/ ~Readable(db.secrets["url"]) THEN To(p, Idle)
       ELSE To(p, [op[p] EXCEPT !.pc = "urls", !.snap = db])
    /\ UNCHANGED <<workScope, files, up, bundles, swap, torn, secretVars, clock, trouble>>

ReencryptUrls(p) ==
    /\ op[p].pc = "urls" /\ Reencrypt(p, "url")
    /\ keyring' = [keyring EXCEPT !.settled = TRUE]
    /\ To(p, [op[p] EXCEPT !.pc = "seed", !.snap = NoDb])
    /\ UNCHANGED <<workScope, files, up, bundles, swap, torn, latest, clock, trouble>>

SeedIfEmpty(p) ==
    /\ op[p].pc = "seed" /\ CanWrite(p)
    /\ IF \E a \in Articles : Row(p, a) # "none" THEN UNCHANGED <<diskVars, pending>>
       ELSE /\ WriteBody(Seed, "seed")
            /\ Commit(p, [View(p) EXCEPT !.rows[Seed] = "new"])
    /\ Goto(p, "revise")
    /\ UNCHANGED <<workScope, up, bundles, swap, torn, secretVars, clock, trouble>>

EnsureRevisions(p) ==
    /\ op[p].pc = "revise" /\ CanWrite(p)
    /\ Commit(p, Revised(View(p)))
    /\ up' = up \cup {p} /\ To(p, Idle)
    /\ UNCHANGED <<workScope, files, bundles, swap, torn, secretVars, clock, trouble>>

Kept(p) == pending[p] = NoDb \/ WorkDoes("crash_delete")
Stop(p) ==
    /\ p \in up /\ op[p] = Idle /\ Kept(p)
    /\ up' = up \ {p} /\ pending' = [pending EXCEPT ![p] = NoDb]
    /\ UNCHANGED <<workScope, diskVars, op, bundles, swap, torn, secretVars, clock, trouble>>

-----------------------------------------------------------------------------

(* Backups.                                                                *)

Complete(d, f) ==
    /\ \A a \in Articles : d.rows[a] # "none" => f.body[a] # "none"
    /\ d.assets \subseteq f.assets
(* Seeded fault: a bundle is published without looking for its blobs.      *)
Unsummarized(d, f) == TRUE
Summarized(d, f) == Complete(d, f)
Verified(b) == b.sound /\ Summarized(b.db, b.files)

Newest(set) == CHOOSE b \in set : \A c \in set : c.at <= b.at
BeginBackup(p, o) ==
    /\ MayBegin(p, o) /\ \A b \in bundles : b.at # clock
    /\ o = "due" /\ bundles # {} =>
          Verified(Newest(bundles)) /\ clock - Newest(bundles).at >= Interval
    /\ To(p, [Idle EXCEPT !.do = "backup", !.pc = "copy", !.snap = View(p)])
    /\ UNCHANGED <<workScope, diskVars, pending, up, bundles, swap, torn, secretVars, clock, trouble>>

CopyFiles(p) ==
    /\ op[p].pc = "copy"
    /\ To(p, [op[p] EXCEPT !.pc = "publish", !.copy = files])
    /\ UNCHANGED <<workScope, diskVars, pending, up, bundles, swap, torn, secretVars, clock, trouble>>

Pruned(set) == {b \in set : Cardinality({c \in set : c.at > b.at}) < Retain}
Publish(p) ==
    /\ op[p].pc = "publish"
    /\ bundles' = IF Summarized(op[p].snap, op[p].copy)
                  THEN Pruned(bundles \cup {[at |-> clock, db |-> op[p].snap,
                                             files |-> op[p].copy, torn |-> torn,
                                             sound |-> TRUE]})
                  ELSE bundles
    /\ To(p, Idle)
    /\ UNCHANGED <<workScope, diskVars, pending, up, swap, torn, secretVars, clock, trouble>>

-----------------------------------------------------------------------------

(* Restore, by a command whose store was opened and closed again, when     *)
(* nothing else runs.                                                      *)

KeysKept(b) == \A s \in Slots : Readable(b.db.secrets[s])
BeginRestore(p, b) ==
    /\ MayBegin(p, "restore") /\ up = {p} /\ b \in bundles /\ Verified(b)
    /\ KeysKept(b) \/ WorkDoes("old")
    /\ up' = {} /\ pending' = [pending EXCEPT ![p] = NoDb] /\ Kept(p)
    /\ swap' = [NoRestore EXCEPT !.pc = "db_out",
                   !.new = b,
                   !.old = [db |-> db, files |-> files]]
    /\ UNCHANGED <<workScope, diskVars, op, bundles, torn, secretVars, clock, trouble>>

SwapTo(pc) == swap' = [swap EXCEPT !.pc = pc]
MoveDatabaseOut ==
    /\ swap.pc = "db_out"
    /\ db' = NoDb /\ swap' = [swap EXCEPT !.pc = "files_out", !.rolled.db = db]
    /\ UNCHANGED <<workScope, files, pending, op, up, bundles, torn, secretVars, clock, trouble>>
MoveFilesOut ==
    /\ swap.pc = "files_out"
    /\ files' = NoFiles /\ swap' = [swap EXCEPT !.pc = "db_in", !.rolled.files = files]
    /\ UNCHANGED <<workScope, db, pending, op, up, bundles, torn, secretVars, clock, trouble>>
MoveDatabaseIn ==
    /\ swap.pc = "db_in"
    /\ db' = swap.new.db /\ SwapTo("files_in")
    /\ UNCHANGED <<workScope, files, pending, op, up, bundles, torn, secretVars, clock, trouble>>
MoveFilesIn ==
    /\ swap.pc = "files_in"
    /\ files' = swap.new.files /\ SwapTo("drop_db")
    /\ UNCHANGED <<workScope, db, pending, op, up, bundles, torn, secretVars, clock, trouble>>
DropOldDatabase ==
    /\ swap.pc = "drop_db"
    /\ swap' = [swap EXCEPT !.pc = "drop_files", !.rolled.db = NoDb]
    /\ UNCHANGED <<workScope, diskVars, pending, op, up, bundles, torn, secretVars, clock, trouble>>
DropOldFiles ==
    /\ swap.pc = "drop_files"
    /\ swap' = [swap EXCEPT !.pc = "done", !.rolled.files = NoFiles]
    /\ torn' = swap.new.torn /\ latest' = [s \in Slots |-> db.secrets[s].val]
    /\ keyring' = [keyring EXCEPT !.settled = FALSE]
    /\ UNCHANGED <<workScope, diskVars, pending, op, up, bundles, clock, trouble>>

(* The except branch: what is in place is deleted, whatever it is, and     *)
(* what was moved aside and is still there comes back.                     *)
(* Seeded fault: only the database comes back.                             *)
FilesLost(rolled) == NoFiles
FilesBack(rolled) == rolled.files
RestoreFails ==
    /\ \/ swap.pc \in {"db_in", "files_in", "drop_db"}
       \/ WorkDoes("replace_early") /\ swap.pc \in {"db_out", "files_out", "drop_files"}
    /\ Trouble("replace")
    /\ db' = swap.rolled.db /\ files' = FilesBack(swap.rolled)
    /\ SwapTo("failed")
    /\ UNCHANGED <<workScope, pending, op, up, bundles, torn, secretVars, clock>>

RestoreCrashes ==
    /\ WorkDoes("crash_restore") /\ Trouble("crash")
    /\ swap.pc \in {"db_out", "files_out", "db_in", "files_in", "drop_db", "drop_files"}
    /\ SwapTo("cut")
    /\ UNCHANGED <<workScope, diskVars, pending, op, up, bundles, torn, secretVars, clock>>

-----------------------------------------------------------------------------

(* Credentials: the URLs are written under the workspace lock, the tokens  *)
(* without it, and nothing protects one that is being re-encrypted.        *)

Stale(q) == op[q].pc = "tokens" /\ NeedsReencryption(op[q].snap.secrets["token"])
MayWriteSecret(p, slot) ==
    /\ p \in up /\ op[p] = Idle /\ CanWrite(p)
    /\ IF slot = "url" THEN \A q \in Procs : ~Locked(q)
       ELSE WorkDoes("online") \/ \A q \in Procs : ~Stale(q)

SaveSecret(p, slot) ==
    /\ WorkDoes("secret") /\ MayWriteSecret(p, slot)
    /\ LET val == IF latest[slot] = 1 THEN 2 ELSE 1 IN
       /\ Commit(p, [View(p) EXCEPT !.secrets[slot] =
                        [row |-> TRUE, key |-> keyring.active, val |-> val]])
       /\ latest' = [latest EXCEPT ![slot] = val]
    /\ UNCHANGED <<workScope, files, op, up, bundles, swap, torn, keyring, clock, trouble>>

EraseSecret(p, slot) ==
    /\ WorkDoes("erase") /\ MayWriteSecret(p, slot) /\ latest[slot] # 0
    /\ Commit(p, [View(p) EXCEPT !.secrets[slot] = [NoSecret EXCEPT !.row = slot = "token"]])
    /\ latest' = [latest EXCEPT ![slot] = 0]
    /\ UNCHANGED <<workScope, files, op, up, bundles, swap, torn, keyring, clock, trouble>>

(* The rotate command, run when writes are stopped: a new active key, then *)
(* the tokens; the URLs wait for the next start.                           *)
(* Seeded fault: the previous keys are dropped.                            *)
OnlyNewKey(keys, key) == {key}
WithKey(keys, key) == keys \cup {key}
RotateKey(p, key) ==
    /\ WorkDoes("rotate") /\ p \in up
    /\ WorkDoes("online") \/ up = {p}
    /\ \A q \in Procs : op[q] = Idle
    /\ key \in Keys /\ key = keyring.active + 1
    /\ keyring' = [active |-> key, keys |-> WithKey(keyring.keys, key), settled |-> FALSE]
    /\ To(p, [Idle EXCEPT !.do = "rotate", !.pc = "tokens", !.snap = View(p)])
    /\ UNCHANGED <<workScope, diskVars, pending, up, bundles, swap, torn, latest, clock, trouble>>

Retired(ring) == {ring.active}
(* The retire command, after a restart since the rotation or a restore.    *)
RetireKeys ==
    /\ WorkDoes("retire") /\ swap.pc = "idle"
    /\ keyring.settled \/ WorkDoes("early")
    /\ keyring.keys # {keyring.active}
    /\ keyring' = [keyring EXCEPT !.keys = Retired(keyring)]
    /\ UNCHANGED <<workScope, diskVars, pending, op, up, bundles, swap, torn, latest, clock, trouble>>

-----------------------------------------------------------------------------

(* Trouble: a process is killed, a disk operation fails, a bundle rots.    *)

CutFiles(p) ==
    {files} \cup
    (CASE op[p].pc = "write" /\ op[p].do = "asset" ->
            {[files EXCEPT !.assets = @ \cup {op[p].art}]}
       [] op[p].pc = "write" /\ op[p].do # "asset" -> {[files EXCEPT !.body[op[p].art] = "cut"]}
       [] Doing(p, "delete", "rmtree") -> {Emptied(files, op[p].art)}
       [] Doing(p, "reset", "rmtree") -> {EmptyFiles}
       [] op[p].pc \notin {"write", "rmtree"} -> {})
Torn(p, f) ==
    torn \cup {a \in Cut(p) : op[p].pc = "commit" \/ f.body[a] # files.body[a]}

Fails(p) ==
    /\ op[p].pc \in {"write", "rmtree", "copy", "publish"} /\ Trouble("disk")
    /\ files' \in CutFiles(p) /\ torn' = Torn(p, files')
    /\ To(p, Idle)
    /\ UNCHANGED <<workScope, db, pending, up, bundles, swap, secretVars, clock>>

(* The operating system releases the lock, SQLite rolls back.              *)
Crash(p) ==
    /\ p \in up \/ op[p] # Idle
    /\ Kept(p) /\ Trouble("crash")
    /\ files' \in CutFiles(p) /\ torn' = Torn(p, files')
    /\ To(p, Idle)
    /\ up' = up \ {p} /\ pending' = [pending EXCEPT ![p] = NoDb]
    /\ UNCHANGED <<workScope, db, bundles, swap, secretVars, clock>>

Damage(b, a) ==
    /\ b \in bundles /\ b.sound /\ Trouble("damage")
    /\ bundles' = (bundles \ {b}) \cup {[b EXCEPT !.sound = FALSE, !.files.body[a] = "none"]}
    /\ UNCHANGED <<workScope, diskVars, pending, op, up, swap, torn, secretVars, clock>>

Tick ==
    /\ WorkDoes("backup") \/ WorkDoes("due")
    /\ clock < MaxTime /\ \E b \in bundles : b.at = clock
    /\ clock' = clock + 1
    /\ UNCHANGED <<workScope, diskVars, pending, op, up, bundles, swap, torn, secretVars, trouble>>

-----------------------------------------------------------------------------

WorkInit ==
    /\ workScope \in WorkScopes
    /\ db = NoDb /\ files = NoFiles
    /\ pending = [p \in Procs |-> NoDb] /\ op = [p \in Procs |-> Idle]
    /\ up = {} /\ bundles = {} /\ swap = NoRestore /\ torn = {}
    /\ latest = [s \in Slots |-> 0]
    /\ keyring = [active |-> 1, keys |-> {1}, settled |-> FALSE]
    /\ clock = 0 /\ trouble = 0

(* What a process does once it has begun an operation.                     *)
Continue(p) ==
    \/ Write(p) \/ CommitWrite(p) \/ WriteRefused(p)
    \/ RemoveFiles(p) \/ CommitDelete(p)
    \/ ReencryptTokens(p) \/ ReencryptUrls(p) \/ SeedIfEmpty(p) \/ EnsureRevisions(p)
    \/ CopyFiles(p) \/ Publish(p)
SwapStep ==
    \/ MoveDatabaseOut \/ MoveFilesOut \/ MoveDatabaseIn \/ MoveFilesIn
    \/ DropOldDatabase \/ DropOldFiles

WorkNext ==
    \/ \E p \in Procs :
          \/ Continue(p)
          \/ Start(p) \/ Stop(p) \/ CommitLeftover(p) \/ BeginReset(p)
          \/ Fails(p) \/ Crash(p)
          \/ \E a \in Articles :
                \/ \E text \in Texts : BeginCreate(p, a, text)
                \/ \E text \in Text : BeginSave(p, a, text)
                \/ BeginAsset(p, a)
                \/ BeginDelete(p, a)
          \/ \E o \in {"backup", "due"} : BeginBackup(p, o)
          \/ \E b \in bundles : BeginRestore(p, b)
          \/ \E slot \in Slots : SaveSecret(p, slot) \/ EraseSecret(p, slot)
          \/ \E key \in Keys : RotateKey(p, key)
    \/ SwapStep \/ RestoreFails \/ RestoreCrashes
    \/ RetireKeys \/ Tick
    \/ \E b \in bundles, a \in Articles : Damage(b, a)

WorkSpec == WorkInit /\ [][WorkNext]_workVars

(* An operation that began goes on; a service that is down is started      *)
(* again, and gets the lock if it is free again and again.                 *)
WorkFairness ==
    /\ WF_workVars(SwapStep)
    /\ \A p \in Procs : WF_workVars(Continue(p)) /\ WF_workVars(CommitLeftover(p))
                        /\ SF_workVars(Start(p))

-----------------------------------------------------------------------------

WorkTypeOK ==
    /\ workScope \in WorkScopes
    /\ db \in Database \cup {NoDb} /\ files \in Directory \cup {NoFiles}
    /\ pending \in [Procs -> Database \cup {NoDb}] /\ op \in [Procs -> Operation]
    /\ up \subseteq Procs /\ torn \subseteq Articles
    /\ \A b \in bundles : b \in Bundle
    /\ swap \in Restore
    /\ latest \in [Slots -> 0..2]
    /\ keyring \in [active: Keys, keys: SUBSET Keys, settled: BOOLEAN]
    /\ keyring.active \in keyring.keys
    /\ clock \in 0..MaxTime /\ trouble \in 0..MaxTrouble

(* No process is inside an operation, and nothing waits for a commit.      *)
Quiet == /\ \A p \in Procs : ~Locked(p) /\ pending[p] = NoDb
         /\ swap.pc = "idle" /\ db # NoDb

Agree(d, f, excused) ==
    \A a \in Articles : d.rows[a] \notin {"none", "new"} /\ a \notin excused
                           => f.body[a] = d.rows[a]

(* Whenever no operation is under way, every article and every asset that  *)
(* has a row has its file, and the file of an article holds the text of    *)
(* its latest revision, whatever was killed or failed before; only a save  *)
(* that was cut off leaves its text ahead of the revision (sqlite.py       *)
(* _write_body, create_article, store_asset, delete_articles, reset,       *)
(* article_revisions.py save_article_revision).                            *)
RowsMatchFiles == Quiet => Complete(db, files) /\ Agree(db, files, torn)

(* A published bundle is the workspace of one moment: every row in it has  *)
(* its file, with the text of its latest revision, although database and   *)
(* files are copied one after the other (backups.py create_backup).        *)
BundlesAreWhole ==
    \A b \in bundles : b.sound => Complete(b.db, b.files) /\ Agree(b.db, b.files, b.torn)

(* A restore that ends has put the bundle in place, and one that failed    *)
(* has put back what was there before (restore_backup).                    *)
RestoreIsAtomic ==
    /\ swap.pc = "done" => db = swap.new.db /\ files = swap.new.files
    /\ swap.pc \in {"failed", "cut"} => db = swap.old.db /\ files = swap.old.files

(* Every stored secret is the last one that was saved, or stays erased,    *)
(* and can be decrypted with a key that is still there, through rotations, *)
(* retirements, restarts and restores, although secrets are re-encrypted   *)
(* by reading and writing back (crypto.py, reencrypt_connection_credentials, *)
(* scripts/bloghub_credentials.py).                                        *)
SecretsSurvive ==
    db # NoDb /\ swap.pc = "idle" =>
        \A s \in Slots : Readable(db.secrets[s]) /\ db.secrets[s].val = latest[s]

(* A process that was stopped or killed, anywhere, can open the workspace  *)
(* again: no crash, rotation or restore leaves a database that refuses to  *)
(* open or a lock that nobody holds (SQLiteStore.__init__).                *)
OpensAgain == \A p \in Procs : workScope # {} /\ p \notin up ~> p \in up
=============================================================================
