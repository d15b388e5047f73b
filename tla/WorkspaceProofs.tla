-------------------------- MODULE WorkspaceProofs --------------------------
(***************************************************************************)
(* Theorems about the workspace on disk for every number of processes,     *)
(* articles, bundles, keys and troubles: types, a restore that is all or   *)
(* nothing, secrets that survive, rows that match their files and bundles  *)
(* that are whole.                                                         *)
(***************************************************************************)
EXTENDS Workspace, TLAPS

(* Where an operation may stand, and what it holds there.                  *)
Placed(o) ==
    /\ \/ o = Idle
       \/ o.do = "start" /\ o.pc \in {"tokens", "urls", "seed", "revise"}
       \/ o.do \in {"create", "save", "asset"} /\ o.pc \in {"write", "commit"}
       \/ o.do = "delete" /\ o.pc \in {"rmtree", "commit"}
       \/ o.do = "reset" /\ o.pc \in {"rmtree", "seed", "revise"}
       \/ o.do = "backup" /\ o.pc \in {"copy", "publish"}
       \/ o.do = "rotate" /\ o.pc = "tokens"
    /\ o.pc \in {"tokens", "urls", "copy", "publish"} => o.snap \in Database
    /\ o.pc = "publish" => o.copy \in Directory

Engaged(p) == op[p].do # "idle"
Present == db \in Database /\ files \in Directory

(* Locks: one process is inside an operation that takes the workspace      *)
(* lock, and whoever works has a database, open or about to be opened.     *)
LockInv ==
    /\ \A p \in Procs : Placed(op[p])
    /\ \A p, q \in Procs : Locked(p) /\ Locked(q) => p = q
    /\ \A p \in Procs : Engaged(p) => (p \in up) # (op[p].do = "start")
    /\ \A p \in Procs : p \in up \/ Engaged(p) => Present
    /\ \A p \in Procs : pending[p] # NoDb => p \in up
    /\ \A p, q \in Procs : pending[p] # NoDb /\ pending[q] # NoDb => p = q

Moving == {"db_out", "files_out", "db_in", "files_in", "drop_db", "drop_files"}

(* A restore stands alone, and where it stands tells what is in place.     *)
SwapInv ==
    /\ swap.pc # "idle" => up = {} /\ \A p \in Procs : ~Engaged(p)
    /\ swap.pc \in Moving \cup {"done", "failed"} => swap.new \in Bundle /\ swap.old # NoDb
    /\ swap.pc = "db_out" => db = swap.old.db /\ files = swap.old.files
    /\ swap.pc = "files_out" =>
          db = NoDb /\ swap.rolled.db = swap.old.db /\ files = swap.old.files
    /\ swap.pc \in {"db_in", "files_in", "drop_db"} => swap.rolled = swap.old
    /\ swap.pc \in {"files_in", "drop_db", "drop_files", "done"} => db = swap.new.db
    /\ swap.pc \in {"drop_db", "drop_files", "done"} => files = swap.new.files

WorkInv == WorkTypeOK /\ LockInv /\ SwapInv

-----------------------------------------------------------------------------
(* Data.                                                                   *)

LEMMA Kinds ==
    /\ NoDb \notin Database /\ NoFiles \notin Directory
    /\ NoDb \notin Bundle /\ NoDb \notin [db: Database, files: Directory]
<1>1. NoDb \notin Database
    BY DEF NoDb, Database
<1>2. NoFiles \notin Directory
    BY DEF NoFiles, Directory
<1>3. NoDb \notin Bundle
    BY DEF NoDb, Bundle
<1>4. NoDb \notin [db: Database, files: Directory]
    BY DEF NoDb
<1> QED BY <1>1, <1>2, <1>3, <1>4

LEMMA Texty ==
    /\ "none" \notin Text /\ "new" \notin Text /\ "cut" \in Text /\ "seed" \in Text
    /\ Texts \subseteq Text
BY WorkAssumption DEF Text

LEMMA Idles ==
    /\ Idle \in Operation /\ Placed(Idle) /\ Idle.do = "idle" /\ Idle.pc = "idle"
<1>1. Idle \in Operation
    BY WorkAssumption, Texty DEF Idle, Operation
<1>2. Idle.do = "idle" /\ Idle.pc = "idle"
    BY DEF Idle
<1> QED BY <1>1, <1>2 DEF Placed

LEMMA IsIdle ==
    ASSUME NEW o \in Operation, Placed(o)
    PROVE  /\ o.do = "idle" <=> o = Idle
           /\ o.pc = "idle" <=> o = Idle
BY Idles DEF Placed

LEMMA EmptyTypes == EmptyDb \in Database /\ EmptyFiles \in Directory
<1>1. NoSecret \in Secret
    BY DEF Secret
<1>2. EmptyDb \in Database
    BY <1>1 DEF EmptyDb, Database
<1> QED BY <1>2 DEF EmptyFiles, Directory

(* What an operation writes is a database again, and changes one part.     *)
LEMMA RowWritten ==
    ASSUME NEW d \in Database, NEW a \in Articles, NEW t \in Text \cup {"none", "new"}
    PROVE  LET e == [d EXCEPT !.rows[a] = t] IN
           /\ e \in Database /\ e.rows = [d.rows EXCEPT ![a] = t]
           /\ e.assets = d.assets /\ e.secrets = d.secrets
BY DEF Database

LEMMA AssetWritten ==
    ASSUME NEW d \in Database, NEW a \in Articles
    PROVE  LET e == [d EXCEPT !.assets = @ \cup {a}] IN
           /\ e \in Database /\ e.assets = d.assets \cup {a}
           /\ e.rows = d.rows /\ e.secrets = d.secrets
BY DEF Database

LEMMA RowDeleted ==
    ASSUME NEW d \in Database, NEW a \in Articles
    PROVE  LET e == [d EXCEPT !.rows[a] = "none", !.assets = @ \ {a}] IN
           /\ e \in Database /\ e.rows = [d.rows EXCEPT ![a] = "none"]
           /\ e.assets = d.assets \ {a} /\ e.secrets = d.secrets
BY DEF Database

LEMMA SecretWritten ==
    ASSUME NEW d \in Database, NEW s \in Slots, NEW secret \in Secret
    PROVE  LET e == [d EXCEPT !.secrets[s] = secret] IN
           /\ e \in Database /\ e.secrets = [d.secrets EXCEPT ![s] = secret]
           /\ e.rows = d.rows /\ e.assets = d.assets
BY DEF Database

LEMMA RowsRevised ==
    ASSUME NEW d \in Database, files \in Directory
    PROVE  /\ Revised(d) \in Database
           /\ Revised(d).rows =
                [a \in Articles |-> IF d.rows[a] = "new" THEN ReadBody(a) ELSE d.rows[a]]
           /\ Revised(d).assets = d.assets /\ Revised(d).secrets = d.secrets
<1>1. \A a \in Articles : ReadBody(a) \in Text
    BY Texty DEF ReadBody, Directory
<1> QED BY <1>1 DEF Revised, Database

LEMMA BodyWritten ==
    ASSUME NEW f \in Directory, NEW a \in Articles, NEW t \in Text \cup {"none"}
    PROVE  LET g == [f EXCEPT !.body[a] = t] IN
           g \in Directory /\ g.body = [f.body EXCEPT ![a] = t] /\ g.assets = f.assets
BY DEF Directory

LEMMA AssetStored ==
    ASSUME NEW f \in Directory, NEW a \in Articles
    PROVE  LET g == [f EXCEPT !.assets = @ \cup {a}] IN
           g \in Directory /\ g.body = f.body /\ g.assets = f.assets \cup {a}
BY DEF Directory

LEMMA FilesEmptied ==
    ASSUME NEW f \in Directory, NEW a \in Articles
    PROVE  /\ Emptied(f, a) \in Directory /\ Emptied(f, a).body = [f.body EXCEPT ![a] = "none"]
           /\ Emptied(f, a).assets = f.assets \ {a}
BY DEF Directory, Emptied

(* A connection's view is a database; a write of it is the only one.       *)
LEMMA Views ==
    ASSUME WorkTypeOK, LockInv, NEW p \in Procs, p \in up \/ Engaged(p)
    PROVE  View(p) \in Database
BY Kinds DEF WorkTypeOK, LockInv, View, Present

-----------------------------------------------------------------------------
(* What a step of a process does to what it is doing.                      *)

(* An operation begins, goes on, or ends.                                  *)
OpStep(p, o) ==
    /\ o \in Operation /\ Placed(o) /\ op' = [op EXCEPT ![p] = o]
    /\ \/ Engaged(p) /\ o.do = op[p].do /\ up' = up
       \/ /\ ~Engaged(p) /\ o.do # "idle" /\ up' = up
          /\ IF o.do = "start" THEN p \notin up ELSE p \in up
          /\ o.do = "rotate" \/ \A q \in Procs : ~Locked(q)
       \/ o = Idle /\ up' \in {up, up \cup {p}, up \ {p}}

LEMMA BeginSteps ==
    ASSUME WorkInv, NEW p \in Procs, NEW a \in Articles, NEW text \in Text,
           \/ text \in Texts /\ BeginCreate(p, a, text)
           \/ BeginSave(p, a, text) \/ BeginAsset(p, a) \/ BeginDelete(p, a)
    PROVE  \E o \in Operation : OpStep(p, o)
<1>1. op[p] = Idle /\ p \in up /\ ~Engaged(p) /\ \A q \in Procs : ~Locked(q)
    BY Idles DEF BeginCreate, BeginSave, BeginAsset, BeginDelete, MayBegin, MaySave, Free, Engaged
<1>2. UNCHANGED up
    BY DEF BeginCreate, BeginSave, BeginAsset, BeginDelete
<1>3. ASSUME NEW o \in Operation, op' = [op EXCEPT ![p] = o], Placed(o),
             o.do \notin {"idle", "start"}
      PROVE  OpStep(p, o)
    BY <1>1, <1>2, <1>3 DEF OpStep
<1>4. ASSUME BeginCreate(p, a, text) PROVE \E o \in Operation : OpStep(p, o)
    <2> DEFINE o == [Idle EXCEPT !.do = "create", !.pc = "write", !.art = a, !.text = text]
    <2>1. o \in Operation /\ o.do = "create" /\ o.pc = "write"
        BY Idles DEF Operation, Ops
    <2>2. op' = [op EXCEPT ![p] = o]
        BY <1>4 DEF BeginCreate, To
    <2>3. Placed(o)
        BY <2>1 DEF Placed
    <2> QED BY <1>3, <2>1, <2>2, <2>3
<1>5. ASSUME BeginSave(p, a, text) PROVE \E o \in Operation : OpStep(p, o)
    <2> DEFINE o == [Idle EXCEPT !.do = "save", !.pc = "write", !.art = a, !.text = text]
    <2>1. o \in Operation /\ o.do = "save" /\ o.pc = "write"
        BY Idles DEF Operation, Ops
    <2>2. op' = [op EXCEPT ![p] = o]
        BY <1>5 DEF BeginSave, To
    <2>3. Placed(o)
        BY <2>1 DEF Placed
    <2> QED BY <1>3, <2>1, <2>2, <2>3
<1>6. ASSUME BeginAsset(p, a) PROVE \E o \in Operation : OpStep(p, o)
    <2> DEFINE o == [Idle EXCEPT !.do = "asset", !.pc = "write", !.art = a]
    <2>1. o \in Operation /\ o.do = "asset" /\ o.pc = "write"
        BY Idles DEF Operation, Ops
    <2>2. op' = [op EXCEPT ![p] = o]
        BY <1>6 DEF BeginAsset, To
    <2>3. Placed(o)
        BY <2>1 DEF Placed
    <2> QED BY <1>3, <2>1, <2>2, <2>3
<1>7. ASSUME BeginDelete(p, a) PROVE \E o \in Operation : OpStep(p, o)
    <2> DEFINE o == [Idle EXCEPT !.do = "delete", !.pc = "rmtree", !.art = a]
    <2>1. o \in Operation /\ o.do = "delete" /\ o.pc = "rmtree"
        BY Idles DEF Operation, Ops
    <2>2. op' = [op EXCEPT ![p] = o]
        BY <1>7 DEF BeginDelete, To
    <2>3. Placed(o)
        BY <2>1 DEF Placed
    <2> QED BY <1>3, <2>1, <2>2, <2>3
<1> QED BY <1>4, <1>5, <1>6, <1>7

LEMMA MoreBeginSteps ==
    ASSUME WorkInv, NEW p \in Procs,
           \/ BeginReset(p) \/ Start(p)
           \/ \E o \in {"backup", "due"} : BeginBackup(p, o)
           \/ \E key \in Keys : RotateKey(p, key)
    PROVE  \E o \in Operation : OpStep(p, o)
<1>1. op[p] = Idle /\ ~Engaged(p)
    BY Idles DEF BeginReset, Start, BeginBackup, RotateKey, MayBegin, Free, Engaged
<1>2. UNCHANGED up
    BY DEF BeginReset, Start, BeginBackup, RotateKey
<1>3. ASSUME BeginReset(p) PROVE \E o \in Operation : OpStep(p, o)
    <2> DEFINE o == [Idle EXCEPT !.do = "reset", !.pc = "rmtree"]
    <2>1. o \in Operation /\ o.do = "reset" /\ o.pc = "rmtree"
        BY Idles DEF Operation, Ops
    <2>2. op' = [op EXCEPT ![p] = o] /\ p \in up /\ \A q \in Procs : ~Locked(q)
        BY <1>3 DEF BeginReset, To, MayBegin, Free
    <2>3. Placed(o)
        BY <2>1 DEF Placed
    <2>4. OpStep(p, o)
        BY <1>1, <1>2, <2>1, <2>2, <2>3 DEF OpStep
    <2> QED BY <2>1, <2>4
<1>4. ASSUME NEW x \in {"backup", "due"}, BeginBackup(p, x)
      PROVE  \E o \in Operation : OpStep(p, o)
    <2> DEFINE o == [Idle EXCEPT !.do = "backup", !.pc = "copy", !.snap = View(p)]
    <2>1. op' = [op EXCEPT ![p] = o] /\ p \in up /\ \A q \in Procs : ~Locked(q)
        BY <1>4 DEF BeginBackup, To, MayBegin, Free
    <2>2. View(p) \in Database
        BY <2>1, Views DEF WorkInv
    <2>3. o \in Operation /\ o.do = "backup" /\ o.pc = "copy" /\ o.snap = View(p)
        BY Idles, <2>2 DEF Operation, Ops
    <2>4. Placed(o)
        BY <2>2, <2>3 DEF Placed
    <2>5. OpStep(p, o)
        BY <1>1, <1>2, <2>1, <2>3, <2>4 DEF OpStep
    <2> QED BY <2>3, <2>5
<1>5. ASSUME NEW key \in Keys, RotateKey(p, key)
      PROVE  \E o \in Operation : OpStep(p, o)
    <2> DEFINE o == [Idle EXCEPT !.do = "rotate", !.pc = "tokens", !.snap = View(p)]
    <2>1. op' = [op EXCEPT ![p] = o] /\ p \in up
        BY <1>5 DEF RotateKey, To
    <2>2. View(p) \in Database
        BY <2>1, Views DEF WorkInv
    <2>3. o \in Operation /\ o.do = "rotate" /\ o.pc = "tokens" /\ o.snap = View(p)
        BY Idles, <2>2 DEF Operation, Ops
    <2>4. Placed(o)
        BY <2>2, <2>3 DEF Placed
    <2>5. OpStep(p, o)
        BY <1>1, <1>2, <2>1, <2>3, <2>4 DEF OpStep
    <2> QED BY <2>3, <2>5
<1>6. ASSUME Start(p) PROVE \E o \in Operation : OpStep(p, o)
    <2> DEFINE d == IF db = NoDb THEN EmptyDb ELSE db
               o == [Idle EXCEPT !.do = "start", !.pc = "tokens", !.snap = d]
    <2>1. op' = [op EXCEPT ![p] = o] /\ p \notin up /\ \A q \in Procs : ~Locked(q)
        BY <1>6 DEF Start, To, Free
    <2>2. d \in Database
        BY EmptyTypes DEF WorkInv, WorkTypeOK
    <2>3. o \in Operation /\ o.do = "start" /\ o.pc = "tokens" /\ o.snap = d
        BY Idles, <2>2 DEF Operation, Ops
    <2>4. Placed(o)
        BY <2>2, <2>3 DEF Placed
    <2>5. OpStep(p, o)
        BY <1>1, <1>2, <2>1, <2>3, <2>4 DEF OpStep
    <2> QED BY <2>3, <2>5
<1> QED BY <1>3, <1>4, <1>5, <1>6

LEMMA GoOn ==
    ASSUME WorkInv, NEW p \in Procs, NEW o \in Operation, Engaged(p), o.do = op[p].do, Placed(o),
           op' = [op EXCEPT ![p] = o], UNCHANGED up
    PROVE  \E x \in Operation : OpStep(p, x)
BY DEF OpStep

LEMMA Ending ==
    ASSUME NEW p \in Procs, To(p, Idle), up' \in {up, up \cup {p}, up \ {p}}
    PROVE  \E o \in Operation : OpStep(p, o)
<1>1. OpStep(p, Idle)
    BY Idles DEF OpStep, To
<1> QED BY <1>1, Idles

(* At a step of an operation, the operation is one of those with the step. *)
LEMMA Standing ==
    ASSUME WorkInv, NEW p \in Procs, op[p].pc # "idle"
    PROVE  /\ op[p] \in Operation /\ Engaged(p)
           /\ op[p].pc = "write" => op[p].do \in {"create", "save", "asset"}
           /\ op[p].pc = "commit" => op[p].do \in {"create", "save", "asset", "delete"}
           /\ op[p].pc = "rmtree" => op[p].do \in {"delete", "reset"}
           /\ op[p].pc = "tokens" => op[p].do \in {"start", "rotate"}
           /\ op[p].pc = "urls" => op[p].do = "start"
           /\ op[p].pc \in {"seed", "revise"} => op[p].do \in {"start", "reset"}
           /\ op[p].pc \in {"copy", "publish"} => op[p].do = "backup"
           /\ op[p].pc \in {"tokens", "urls", "copy", "publish"} => op[p].snap \in Database
           /\ op[p].pc = "publish" => op[p].copy \in Directory
           /\ Present
<1>1. op[p] \in Operation /\ Placed(op[p])
    BY DEF WorkInv, WorkTypeOK, LockInv
<1>2. op[p].do # "idle"
    BY <1>1, IsIdle
<1>3. Present
    BY <1>2 DEF WorkInv, LockInv, Engaged
<1> QED BY <1>1, <1>2, <1>3, Idles DEF Placed, Engaged

LEMMA ContinueSteps ==
    ASSUME WorkInv, NEW p \in Procs, Continue(p)
    PROVE  \E o \in Operation : OpStep(p, o)
<1>1. ASSUME Write(p) PROVE \E o \in Operation : OpStep(p, o)
    <2> DEFINE o == [op[p] EXCEPT !.pc = "commit"]
    <2>1. op[p].pc = "write" /\ op' = [op EXCEPT ![p] = o] /\ UNCHANGED up
        BY <1>1 DEF Write, Goto, To
    <2>2. o \in Operation /\ o.do = op[p].do /\ o.pc = "commit"
        BY <2>1, Standing DEF Operation
    <2>3. Placed(o)
        BY <2>1, <2>2, Standing DEF Placed
    <2> HIDE DEF o
    <2> QED BY <2>1, <2>2, <2>3, Standing, GoOn
<1>2. ASSUME CommitWrite(p) \/ WriteRefused(p) \/ CommitDelete(p) \/ Publish(p)
      PROVE  \E o \in Operation : OpStep(p, o)
    BY <1>2, Ending DEF CommitWrite, WriteRefused, CommitDelete, Publish
<1>3. ASSUME RemoveFiles(p) PROVE \E o \in Operation : OpStep(p, o)
    <2>1. PICK pc \in {"commit", "seed"} :
                /\ op[p].pc = "rmtree" /\ op' = [op EXCEPT ![p] = [op[p] EXCEPT !.pc = pc]]
                /\ op[p].do = IF pc = "seed" THEN "reset" ELSE "delete"
                /\ UNCHANGED up
        BY <1>3 DEF RemoveFiles, Goto, To
    <2> DEFINE o == [op[p] EXCEPT !.pc = pc]
    <2>2. o \in Operation /\ o.do = op[p].do /\ o.pc = pc
        BY <2>1, Standing DEF Operation
    <2>3. Placed(o)
        BY <2>1, <2>2, Standing DEF Placed
    <2>4. op' = [op EXCEPT ![p] = o]
        BY <2>1
    <2> HIDE DEF o
    <2> QED BY <2>1, <2>2, <2>3, <2>4, Standing, GoOn
<1>4. ASSUME ReencryptTokens(p) PROVE \E o \in Operation : OpStep(p, o)
    <2>1. CASE To(p, Idle)
        BY <1>4, <2>1, Ending DEF ReencryptTokens
    <2>2. CASE ~To(p, Idle)
        <3> DEFINE o == [op[p] EXCEPT !.pc = "urls", !.snap = db]
        <3>1. /\ op[p].pc = "tokens" /\ op' = [op EXCEPT ![p] = o] /\ op[p].do # "rotate"
              /\ UNCHANGED up
            BY <1>4, <2>2 DEF ReencryptTokens, To
        <3>2. db \in Database
            BY <3>1, Standing DEF Present
        <3>3. o \in Operation /\ o.do = op[p].do /\ o.pc = "urls" /\ o.snap = db
            BY <3>1, <3>2, Standing DEF Operation
        <3>4. Placed(o)
            BY <3>1, <3>2, <3>3, Standing DEF Placed
        <3> HIDE DEF o
        <3> QED BY <3>1, <3>3, <3>4, Standing, GoOn
    <2> QED BY <2>1, <2>2
<1>5. ASSUME ReencryptUrls(p) PROVE \E o \in Operation : OpStep(p, o)
    <2> DEFINE o == [op[p] EXCEPT !.pc = "seed", !.snap = NoDb]
    <2>1. op[p].pc = "urls" /\ op' = [op EXCEPT ![p] = o] /\ UNCHANGED up
        BY <1>5 DEF ReencryptUrls, To
    <2>2. o \in Operation /\ o.do = op[p].do /\ o.pc = "seed"
        BY <2>1, Standing DEF Operation
    <2>3. Placed(o)
        BY <2>1, <2>2, Standing DEF Placed
    <2> HIDE DEF o
    <2> QED BY <2>1, <2>2, <2>3, Standing, GoOn
<1>6. ASSUME SeedIfEmpty(p) PROVE \E o \in Operation : OpStep(p, o)
    <2> DEFINE o == [op[p] EXCEPT !.pc = "revise"]
    <2>1. op[p].pc = "seed" /\ op' = [op EXCEPT ![p] = o] /\ UNCHANGED up
        BY <1>6 DEF SeedIfEmpty, Goto, To
    <2>2. o \in Operation /\ o.do = op[p].do /\ o.pc = "revise"
        BY <2>1, Standing DEF Operation
    <2>3. Placed(o)
        BY <2>1, <2>2, Standing DEF Placed
    <2> HIDE DEF o
    <2> QED BY <2>1, <2>2, <2>3, Standing, GoOn
<1>7. ASSUME EnsureRevisions(p) PROVE \E o \in Operation : OpStep(p, o)
    BY <1>7, Ending DEF EnsureRevisions
<1>8. ASSUME CopyFiles(p) PROVE \E o \in Operation : OpStep(p, o)
    <2> DEFINE o == [op[p] EXCEPT !.pc = "publish", !.copy = files]
    <2>1. op[p].pc = "copy" /\ op' = [op EXCEPT ![p] = o] /\ UNCHANGED up
        BY <1>8 DEF CopyFiles, To
    <2>2. files \in Directory
        BY <2>1, Standing DEF Present
    <2>3. o \in Operation /\ o.do = op[p].do /\ o.pc = "publish" /\ o.copy = files
             /\ o.snap = op[p].snap
        BY <2>1, <2>2, Standing DEF Operation
    <2>4. Placed(o)
        BY <2>1, <2>2, <2>3, Standing DEF Placed
    <2> HIDE DEF o
    <2> QED BY <2>1, <2>3, <2>4, Standing, GoOn
<1> QED BY <1>1, <1>2, <1>3, <1>4, <1>5, <1>6, <1>7, <1>8 DEF Continue

LEMMA EndSteps ==
    ASSUME WorkInv, NEW p \in Procs, Fails(p) \/ Crash(p)
    PROVE  \E o \in Operation : OpStep(p, o)
BY Ending DEF Fails, Crash

-----------------------------------------------------------------------------
(* What a step of a process does to the disk.                              *)

(* The database and the files stay in place, and one connection at a time  *)
(* holds a transaction.                                                    *)
DiskStep(p) ==
    /\ Present' /\ up' \subseteq up \cup {p}
    /\ \E x \in Database \cup {NoDb} :
          /\ pending' = [pending EXCEPT ![p] = x]
          /\ x # NoDb => (p \in up /\ up' = up) /\ (pending[p] # NoDb \/ CanWrite(p))

LEMMA SameDisk ==
    ASSUME WorkInv, NEW p \in Procs, Present, up' = up \/ up' = up \cup {p},
           db' \in Database, files' \in Directory, UNCHANGED pending
    PROVE  DiskStep(p)
<1>1. pending[p] \in Database \cup {NoDb} /\ pending' = [pending EXCEPT ![p] = pending[p]]
    BY DEF WorkInv, WorkTypeOK
<1>2. pending[p] # NoDb => p \in up
    BY DEF WorkInv, LockInv
<1>3. p \in up => up \cup {p} = up
    OBVIOUS
<1> QED BY <1>1, <1>2, <1>3 DEF DiskStep, Present

LEMMA Rollback ==
    ASSUME WorkInv, NEW p \in Procs, Present', up' \in {up, up \cup {p}, up \ {p}},
           pending' = [pending EXCEPT ![p] = NoDb]
    PROVE  DiskStep(p)
BY DEF DiskStep

LEMMA Committed ==
    ASSUME WorkInv, NEW p \in Procs, Present, up' = up \/ up' = up \cup {p},
           NEW d \in Database, Commit(p, d), files' \in Directory
    PROVE  DiskStep(p)
<1>1. Present' /\ pending' = [pending EXCEPT ![p] = NoDb]
    BY DEF Commit, Present
<1> QED BY <1>1, Rollback

(* Whoever has opened the store, or is about to, has a database.           *)
LEMMA Open ==
    ASSUME WorkInv, NEW p \in Procs, p \in up \/ Engaged(p)
    PROVE  /\ Present /\ View(p) \in Database
           /\ Present = (db \in Database /\ files \in Directory)
BY Views DEF WorkInv, LockInv, Present

LEMMA BeginDisk ==
    ASSUME WorkInv, NEW p \in Procs, NEW a \in Articles, NEW text \in Text,
           \/ text \in Texts /\ BeginCreate(p, a, text)
           \/ BeginSave(p, a, text) \/ BeginAsset(p, a) \/ BeginDelete(p, a)
    PROVE  DiskStep(p)
<1>1. p \in up /\ UNCHANGED <<diskVars, up>>
    BY DEF BeginCreate, BeginSave, BeginAsset, BeginDelete, MayBegin, MaySave
<1>2. Present /\ View(p) \in Database
    BY <1>1, Open
<1>3. CASE UNCHANGED pending
    BY <1>1, <1>2, <1>3, SameDisk DEF diskVars, Present
<1>4. CASE BeginDelete(p, a)
    <2> DEFINE d == [View(p) EXCEPT !.rows[a] = "none", !.assets = @ \ {a}]
    <2>1. d \in Database
        BY <1>2, RowDeleted
    <2>2. pending' = [pending EXCEPT ![p] = d] /\ CanWrite(p)
        BY <1>4 DEF BeginDelete
    <2> HIDE DEF d
    <2> QED BY <1>1, <1>2, <2>1, <2>2 DEF DiskStep, diskVars, Present
<1> QED BY <1>3, <1>4 DEF BeginCreate, BeginSave, BeginAsset

LEMMA MoreBeginDisk ==
    ASSUME WorkInv, NEW p \in Procs,
           \/ BeginReset(p) \/ Start(p)
           \/ \E o \in {"backup", "due"} : BeginBackup(p, o)
           \/ \E key \in Keys : RotateKey(p, key)
    PROVE  DiskStep(p)
<1>1. CASE BeginReset(p)
    <2>1. p \in up /\ Commit(p, EmptyDb) /\ UNCHANGED <<files, up>>
        BY <1>1 DEF BeginReset, MayBegin
    <2>2. Present
        BY <2>1, Open
    <2> QED BY <2>1, <2>2, Committed, EmptyTypes DEF Present
<1>2. CASE Start(p)
    <2>1. /\ db' = IF db = NoDb THEN EmptyDb ELSE db
          /\ files' = IF files = NoFiles THEN EmptyFiles ELSE files
          /\ UNCHANGED <<pending, up>> /\ p \notin up
        BY <1>2 DEF Start
    <2>2. db' \in Database /\ files' \in Directory
        BY <2>1, EmptyTypes DEF WorkInv, WorkTypeOK
    <2>3. pending[p] = NoDb /\ pending' = [pending EXCEPT ![p] = NoDb]
        BY <2>1 DEF WorkInv, LockInv, WorkTypeOK
    <2> QED BY <2>1, <2>2, <2>3 DEF DiskStep, Present
<1>3. ASSUME \/ \E o \in {"backup", "due"} : BeginBackup(p, o)
             \/ \E key \in Keys : RotateKey(p, key)
      PROVE  DiskStep(p)
    <2>1. p \in up /\ UNCHANGED <<diskVars, up, pending>>
        BY <1>3 DEF BeginBackup, RotateKey, MayBegin
    <2>2. Present
        BY <2>1, Open
    <2> QED BY <2>1, <2>2, SameDisk DEF diskVars, Present
<1> QED BY <1>1, <1>2, <1>3

LEMMA ReencryptDisk ==
    ASSUME WorkInv, NEW p \in Procs, NEW s \in Slots, Engaged(p), op[p].snap \in Database,
           Reencrypt(p, s), UNCHANGED <<files, up>>
    PROVE  /\ DiskStep(p)
           /\ LET secret == op[p].snap.secrets[s] IN
              IF NeedsReencryption(secret) /\ View(p).secrets[s].row
              THEN /\ [secret EXCEPT !.key = keyring.active] \in Secret
                   /\ secret.row
                   /\ db'.secrets = [View(p).secrets EXCEPT ![s] =
                                        [secret EXCEPT !.key = keyring.active]]
              ELSE db'.secrets = IF NeedsReencryption(secret) THEN View(p).secrets ELSE db.secrets
<1> DEFINE secret == op[p].snap.secrets[s]
           new == [secret EXCEPT !.key = keyring.active]
<1>1. Present /\ View(p) \in Database
    BY Open
<1>2. secret \in Secret /\ keyring.active \in Keys
    BY DEF Database, WorkInv, WorkTypeOK
<1>3. CASE ~NeedsReencryption(secret)
    BY <1>1, <1>3, SameDisk DEF Reencrypt, Present
<1>4. CASE NeedsReencryption(secret) /\ View(p).secrets[s].row
    <2>1. secret.key # 0
        BY <1>4 DEF NeedsReencryption
    <2>2. secret \in [row: {TRUE}, key: Keys \cup {0}, val: 0..2]
        <3>1. NoSecret.key = 0
            BY DEF NoSecret
        <3>2. secret # NoSecret
            BY <2>1, <3>1
        <3> HIDE DEF secret
        <3> QED BY <1>2, <3>2 DEF Secret
    <2>3. new \in Secret /\ secret.row
        BY <1>2, <2>2 DEF Secret
    <2> HIDE DEF new
    <2> DEFINE d == [View(p) EXCEPT !.secrets[s] = new]
    <2>4. d \in Database /\ d.secrets = [View(p).secrets EXCEPT ![s] = new]
        BY <1>1, <2>3, SecretWritten
    <2>5. Commit(p, d)
        BY <1>4 DEF Reencrypt, Reencrypted, new
    <2> HIDE DEF d
    <2>6. db' = d
        BY <2>5 DEF Commit
    <2>7. DiskStep(p)
        BY <1>1, <2>4, <2>5, Committed DEF Present
    <2> QED BY <1>4, <2>3, <2>4, <2>6, <2>7 DEF new
<1>5. CASE NeedsReencryption(secret) /\ ~View(p).secrets[s].row
    <2>1. Commit(p, View(p))
        BY <1>5 DEF Reencrypt, Reencrypted
    <2>2. DiskStep(p)
        BY <1>1, <2>1, Committed DEF Present
    <2> QED BY <1>5, <2>1, <2>2 DEF Commit
<1> QED BY <1>3, <1>4, <1>5

(* What a write or a removal that is cut off may leave.                    *)
LEMMA Cuts ==
    ASSUME WorkInv, NEW p \in Procs, Present, NEW f \in CutFiles(p)
    PROVE  /\ f \in Directory
           /\ \/ f = files
              \/ /\ op[p].pc = "write" /\ op[p].do = "asset"
                 /\ f.body = files.body /\ f.assets = files.assets \cup {op[p].art}
              \/ /\ op[p].pc = "write" /\ op[p].do \in {"create", "save"}
                 /\ f.body = [files.body EXCEPT ![op[p].art] = "cut"] /\ f.assets = files.assets
              \/ Doing(p, "delete", "rmtree") /\ f = Emptied(files, op[p].art)
              \/ Doing(p, "reset", "rmtree") /\ f = EmptyFiles
<1>1. files \in Directory
    BY DEF Present
<1>2. op[p].art \in Articles
    BY DEF WorkInv, WorkTypeOK, Operation
<1>3. CASE op[p].pc = "write" /\ op[p].do = "asset"
    <2>1. f \in {files, [files EXCEPT !.assets = @ \cup {op[p].art}]}
        BY <1>3 DEF CutFiles, Doing
    <2> QED BY <1>1, <1>2, <1>3, <2>1, AssetStored
<1>4. CASE op[p].pc = "write" /\ op[p].do # "asset"
    <2>1. f \in {files, [files EXCEPT !.body[op[p].art] = "cut"]}
        BY <1>4 DEF CutFiles, Doing
    <2>2. op[p].do \in {"create", "save"}
        BY <1>4, Standing
    <2> DEFINE g == [files EXCEPT !.body[op[p].art] = "cut"]
    <2>3. /\ g \in Directory /\ g.body = [files.body EXCEPT ![op[p].art] = "cut"]
          /\ g.assets = files.assets
        BY <1>1, <1>2, BodyWritten, Texty
    <2> HIDE DEF g
    <2>4. f = files \/ f = g
        BY <2>1 DEF g
    <2> QED BY <1>1, <1>4, <2>2, <2>3, <2>4
<1>5. CASE Doing(p, "delete", "rmtree")
    <2>1. f \in {files, Emptied(files, op[p].art)}
        BY <1>5 DEF CutFiles, Doing
    <2> QED BY <1>1, <1>2, <1>5, <2>1, FilesEmptied
<1>6. CASE Doing(p, "reset", "rmtree")
    <2>1. f \in {files, EmptyFiles}
        BY <1>6 DEF CutFiles, Doing
    <2> QED BY <1>1, <1>6, <2>1, EmptyTypes
<1>7. CASE op[p].pc \notin {"write", "rmtree"}
    <2>1. f = files
        BY <1>7 DEF CutFiles, Doing
    <2> QED BY <1>1, <2>1
<1> QED BY <1>3, <1>4, <1>5, <1>6, <1>7, Standing DEF Doing

LEMMA ContinueDisk ==
    ASSUME WorkInv, NEW p \in Procs, Continue(p)
    PROVE  DiskStep(p)
<1>1. op[p].pc # "idle"
    BY DEF Continue, Write, CommitWrite, WriteRefused, RemoveFiles, CommitDelete, ReencryptTokens,
           ReencryptUrls, SeedIfEmpty, EnsureRevisions, CopyFiles, Publish, Doing
<1>2. Present /\ op[p] \in Operation /\ Engaged(p) /\ View(p) \in Database
    BY <1>1, Standing, Open
<1>3. op[p].art \in Articles /\ op[p].text \in Text
    BY <1>2 DEF Operation
<1>4. ASSUME Write(p) PROVE DiskStep(p)
    <2>1. files' \in Directory
        <3>1. files' = [files EXCEPT !.assets = @ \cup {op[p].art}]
              \/ files' = [files EXCEPT !.body[op[p].art] = op[p].text]
            BY <1>4 DEF Write, WriteBody
        <3> QED BY <1>2, <1>3, <3>1, AssetStored, BodyWritten DEF Present
    <2> QED BY <1>2, <1>4, <2>1, SameDisk DEF Write, Present
<1>5. ASSUME CommitWrite(p) PROVE DiskStep(p)
    <2>1. Written(View(p), op[p]) \in Database
        BY <1>2, <1>3, AssetWritten, RowWritten DEF Written
    <2> QED BY <1>2, <1>5, <2>1, Committed DEF CommitWrite, Present
<1>6. ASSUME WriteRefused(p) \/ CopyFiles(p) \/ Publish(p) PROVE DiskStep(p)
    BY <1>2, <1>6, SameDisk DEF WriteRefused, CopyFiles, Publish, diskVars, Present
<1>7. ASSUME RemoveFiles(p) PROVE DiskStep(p)
    <2>1. files' \in Directory
        BY <1>2, <1>3, <1>7, FilesEmptied, EmptyTypes DEF RemoveFiles, Present
    <2> QED BY <1>2, <1>7, <2>1, SameDisk DEF RemoveFiles, Present
<1>8. ASSUME CommitDelete(p) PROVE DiskStep(p)
    BY <1>2, <1>8, Committed DEF CommitDelete, Present
<1>9. ASSUME ReencryptTokens(p) PROVE DiskStep(p)
    <2>1. op[p].pc = "tokens" /\ Reencrypt(p, "token") /\ UNCHANGED <<files, up>>
        BY <1>9 DEF ReencryptTokens
    <2>2. op[p].snap \in Database /\ "token" \in Slots
        BY <2>1, Standing DEF Slots
    <2> QED BY <1>2, <2>1, <2>2, ReencryptDisk
<1>10. ASSUME ReencryptUrls(p) PROVE DiskStep(p)
    <2>1. op[p].pc = "urls" /\ Reencrypt(p, "url") /\ UNCHANGED <<files, up>>
        BY <1>10 DEF ReencryptUrls
    <2>2. op[p].snap \in Database /\ "url" \in Slots
        BY <2>1, Standing DEF Slots
    <2> QED BY <1>2, <2>1, <2>2, ReencryptDisk
<1>11. ASSUME SeedIfEmpty(p) PROVE DiskStep(p)
    <2>1. CASE UNCHANGED <<diskVars, pending>>
        BY <1>2, <1>11, <2>1, SameDisk DEF SeedIfEmpty, diskVars, Present
    <2>2. CASE ~UNCHANGED <<diskVars, pending>>
        <3> DEFINE d == [View(p) EXCEPT !.rows[Seed] = "new"]
        <3>1. /\ WriteBody(Seed, "seed") /\ Commit(p, d) /\ UNCHANGED up
            BY <1>11, <2>2 DEF SeedIfEmpty
        <3>2. d \in Database
            BY <1>2, RowWritten, WorkAssumption
        <3>3. files' \in Directory
            BY <1>2, <3>1, BodyWritten, WorkAssumption, Texty DEF WriteBody, Present
        <3> HIDE DEF d
        <3> QED BY <1>2, <3>1, <3>2, <3>3, Committed
    <2> QED BY <2>1, <2>2
<1>12. ASSUME EnsureRevisions(p) PROVE DiskStep(p)
    <2>1. Revised(View(p)) \in Database
        BY <1>2, RowsRevised DEF Present
    <2> QED BY <1>2, <1>12, <2>1, Committed DEF EnsureRevisions, Present
<1> QED BY <1>4, <1>5, <1>6, <1>7, <1>8, <1>9, <1>10, <1>11, <1>12 DEF Continue

LEMMA OtherDisk ==
    ASSUME WorkInv, NEW p \in Procs,
           \/ Stop(p) \/ CommitLeftover(p) \/ Fails(p) \/ Crash(p)
           \/ \E slot \in Slots : SaveSecret(p, slot) \/ EraseSecret(p, slot)
    PROVE  DiskStep(p)
<1>1. p \in up \/ Engaged(p)
    <2>1. op[p] \in Operation /\ Placed(op[p])
        BY DEF WorkInv, WorkTypeOK, LockInv
    <2>2. ASSUME op[p] # Idle PROVE Engaged(p)
        BY <2>1, <2>2, IsIdle DEF Engaged
    <2>3. ASSUME Fails(p) PROVE op[p] # Idle
        BY <2>3, Idles DEF Fails
    <2>4. ASSUME Crash(p) PROVE p \in up \/ op[p] # Idle
        BY <2>4 DEF Crash
    <2> QED BY <2>2, <2>3, <2>4 DEF Stop, CommitLeftover, SaveSecret, EraseSecret, MayWriteSecret
<1>2. Present /\ View(p) \in Database
    BY <1>1, Open
<1>4. ASSUME Stop(p) PROVE DiskStep(p)
    BY <1>2, <1>4, Rollback DEF Stop, diskVars, Present
<1>5. ASSUME CommitLeftover(p) PROVE DiskStep(p)
    <2>1. pending[p] \in Database
        BY <1>5 DEF CommitLeftover, WorkInv, WorkTypeOK
    <2> QED BY <1>2, <1>5, <2>1, Committed DEF CommitLeftover, Present
<1>6. ASSUME Fails(p) PROVE DiskStep(p)
    BY <1>2, <1>6, Cuts, SameDisk DEF Fails, Present
<1>7. ASSUME Crash(p) PROVE DiskStep(p)
    BY <1>2, <1>7, Cuts, Rollback DEF Crash, Present
<1>8. ASSUME NEW s \in Slots, SaveSecret(p, s) PROVE DiskStep(p)
    <2> DEFINE new == [row |-> TRUE, key |-> keyring.active,
                       val |-> IF latest[s] = 1 THEN 2 ELSE 1]
               d == [View(p) EXCEPT !.secrets[s] = new]
    <2>1. keyring.active \in Keys
        BY DEF WorkInv, WorkTypeOK
    <2>2. new \in Secret
        BY <2>1 DEF Secret
    <2>3. Commit(p, d) /\ UNCHANGED <<files, up>>
        BY <1>8 DEF SaveSecret
    <2>4. d \in Database
        BY <1>2, <2>2, SecretWritten
    <2> HIDE DEF d
    <2> QED BY <1>2, <2>3, <2>4, Committed DEF Present
<1>9. ASSUME NEW s \in Slots, EraseSecret(p, s) PROVE DiskStep(p)
    <2> DEFINE new == [NoSecret EXCEPT !.row = s = "token"]
               d == [View(p) EXCEPT !.secrets[s] = new]
    <2>2. new \in Secret
        <3>1. new = [row |-> s = "token", key |-> 0, val |-> 0]
            BY DEF NoSecret
        <3>2. CASE s = "token"
            <4>1. new = [row |-> TRUE, key |-> 0, val |-> 0]
                BY <3>1, <3>2
            <4> HIDE DEF new
            <4> QED BY <4>1 DEF Secret
        <3>3. CASE s # "token"
            <4>1. new = NoSecret
                BY <3>1, <3>3 DEF NoSecret
            <4> QED BY <4>1 DEF Secret
        <3> QED BY <3>2, <3>3
    <2>3. Commit(p, d) /\ UNCHANGED <<files, up>>
        BY <1>9 DEF EraseSecret
    <2>4. d \in Database
        BY <1>2, <2>2, SecretWritten
    <2> HIDE DEF d
    <2> QED BY <1>2, <2>3, <2>4, Committed DEF Present
<1> QED BY <1>4, <1>5, <1>6, <1>7, <1>8, <1>9

-----------------------------------------------------------------------------
(* Types, locks and the restore.                                           *)

Restores(p) == \E b \in bundles : BeginRestore(p, b)
Works(p) ==
    \/ Continue(p)
    \/ Start(p) \/ Stop(p) \/ CommitLeftover(p) \/ BeginReset(p)
    \/ Fails(p) \/ Crash(p)
    \/ \E a \in Articles :
          \/ \E text \in Texts : BeginCreate(p, a, text)
          \/ \E text \in Text : BeginSave(p, a, text)
          \/ BeginAsset(p, a)
          \/ BeginDelete(p, a)
    \/ \E o \in {"backup", "due"} : BeginBackup(p, o)
    \/ \E slot \in Slots : SaveSecret(p, slot) \/ EraseSecret(p, slot)
    \/ \E key \in Keys : RotateKey(p, key)
Nobody == \/ SwapStep \/ RestoreFails \/ RestoreCrashes \/ RetireKeys \/ Tick
          \/ \E b \in bundles, a \in Articles : Damage(b, a)

LEMMA Actors == WorkNext <=> (\E p \in Procs : Works(p) \/ Restores(p)) \/ Nobody
BY DEF WorkNext, Works, Restores, Nobody

LEMMA WorkSteps ==
    ASSUME WorkInv, NEW p \in Procs, Works(p)
    PROVE  DiskStep(p) /\ \E o \in Operation : OpStep(p, o)
<1>1. CASE Continue(p)
    BY <1>1, ContinueSteps, ContinueDisk
<1>2. CASE BeginReset(p) \/ Start(p) \/ (\E o \in {"backup", "due"} : BeginBackup(p, o))
           \/ (\E key \in Keys : RotateKey(p, key))
    BY <1>2, MoreBeginSteps, MoreBeginDisk
<1>3. CASE Fails(p) \/ Crash(p)
    BY <1>3, EndSteps, OtherDisk
<1>4. ASSUME NEW a \in Articles, NEW text \in Text,
             \/ text \in Texts /\ BeginCreate(p, a, text)
             \/ BeginSave(p, a, text) \/ BeginAsset(p, a) \/ BeginDelete(p, a)
      PROVE  DiskStep(p) /\ \E o \in Operation : OpStep(p, o)
    BY <1>4, BeginSteps, BeginDisk
<1>5. CASE \/ Stop(p) \/ CommitLeftover(p)
           \/ \E slot \in Slots : SaveSecret(p, slot) \/ EraseSecret(p, slot)
    <2>1. op[p] = Idle /\ UNCHANGED op /\ up' \in {up, up \ {p}}
        BY <1>5 DEF Stop, CommitLeftover, SaveSecret, EraseSecret, MayWriteSecret
    <2>2. To(p, Idle)
        BY <2>1 DEF To, WorkInv, WorkTypeOK
    <2> QED BY <1>5, <2>1, <2>2, OtherDisk, Ending
<1>6. Texts \subseteq Text /\ "seed" \in Text
    BY Texty
<1> QED BY <1>1, <1>2, <1>3, <1>4, <1>5, <1>6 DEF Works

LEMMA LockWork ==
    ASSUME WorkInv, NEW p \in Procs, NEW o \in Operation, OpStep(p, o), DiskStep(p)
    PROVE  LockInv'
<1>1. /\ op'[p] = o /\ \A q \in Procs \ {p} : op'[q] = op[q]
      /\ Engaged(p)' = (o.do # "idle") /\ \A q \in Procs \ {p} : Engaged(q)' = Engaged(q)
      /\ Locked(p)' = (o.do \notin {"idle", "rotate"})
      /\ \A q \in Procs \ {p} : Locked(q)' = Locked(q)
    BY DEF OpStep, WorkInv, WorkTypeOK, Engaged, Locked
<1>2. \A q \in Procs : Placed(op'[q])
    BY <1>1 DEF OpStep, WorkInv, LockInv
<1>3. ASSUME NEW q \in Procs, NEW r \in Procs, Locked(q)', Locked(r)' PROVE q = r
    <2>1. ASSUME NEW x \in Procs, x # p, Locked(x)', Locked(p)' PROVE FALSE
        <3>1. Locked(x)
            BY <1>1, <2>1
        <3>2. o.do \notin {"idle", "rotate"}
            BY <1>1, <2>1
        <3>3. Engaged(p) /\ o.do = op[p].do
            BY <3>1, <3>2, Idles DEF OpStep
        <3>4. Locked(p)
            BY <3>2, <3>3 DEF Locked
        <3> QED BY <2>1, <3>1, <3>4 DEF WorkInv, LockInv
    <2>2. CASE q # p /\ r # p
        BY <1>1, <1>3, <2>2 DEF WorkInv, LockInv
    <2> QED BY <1>3, <2>1, <2>2
<1>4. ASSUME NEW q \in Procs, Engaged(q)' PROVE (q \in up') # (op'[q].do = "start")
    <2>1. CASE q # p
        <3>1. (q \in up) # (op[q].do = "start") /\ op'[q] = op[q]
            BY <1>1, <1>4, <2>1 DEF WorkInv, LockInv
        <3>2. q \in up' <=> q \in up
            BY <2>1 DEF OpStep
        <3> QED BY <3>1, <3>2
    <2>2. CASE q = p
        <3>1. o.do # "idle" /\ op'[p] = o
            BY <1>1, <1>4, <2>2
        <3>2. CASE Engaged(p) /\ o.do = op[p].do /\ up' = up
            BY <2>2, <3>1, <3>2 DEF WorkInv, LockInv
        <3>3. CASE up' = up /\ IF o.do = "start" THEN p \notin up ELSE p \in up
            BY <2>2, <3>1, <3>3
        <3> QED BY <3>1, <3>2, <3>3, Idles DEF OpStep
    <2> QED BY <2>1, <2>2
<1>5. Present'
    BY DEF DiskStep
<1>6. PICK x \in Database \cup {NoDb} :
          /\ pending' = [pending EXCEPT ![p] = x]
          /\ x # NoDb => (p \in up /\ up' = up) /\ (pending[p] # NoDb \/ CanWrite(p))
    BY DEF DiskStep
<1>7. pending'[p] = x /\ \A q \in Procs \ {p} : pending'[q] = pending[q]
    BY <1>6 DEF WorkInv, WorkTypeOK
<1>8. ASSUME NEW q \in Procs, pending'[q] # NoDb PROVE q \in up'
    <2>1. CASE q = p
        BY <1>6, <1>7, <1>8, <2>1
    <2>2. CASE q # p
        <3>1. q \in up
            BY <1>7, <1>8, <2>2 DEF WorkInv, LockInv
        <3> QED BY <2>2, <3>1 DEF OpStep
    <2> QED BY <2>1, <2>2
<1>9. ASSUME NEW q \in Procs, NEW r \in Procs, pending'[q] # NoDb, pending'[r] # NoDb PROVE q = r
    <2>1. ASSUME NEW y \in Procs, y # p, pending'[y] # NoDb, pending'[p] # NoDb PROVE FALSE
        BY <1>6, <1>7, <2>1 DEF CanWrite, WorkInv, LockInv
    <2>2. CASE q # p /\ r # p
        BY <1>7, <1>9, <2>2 DEF WorkInv, LockInv
    <2> QED BY <1>9, <2>1, <2>2
<1> QED BY <1>2, <1>3, <1>4, <1>5, <1>8, <1>9 DEF LockInv

(* While a process is open or busy no restore is under way.                *)
LEMMA NoSwap ==
    ASSUME WorkInv, NEW p \in Procs, p \in up \/ Engaged(p)
    PROVE  swap.pc = "idle"
BY DEF WorkInv, SwapInv

LEMMA SwapWork ==
    ASSUME WorkInv, NEW p \in Procs, Works(p)
    PROVE  swap'.pc = "idle" /\ swap' \in Restore
<1>1. CASE Start(p)
    <2>1. NoRestore \in Restore /\ NoRestore.pc = "idle"
        BY DEF NoRestore, Restore
    <2> QED BY <1>1, <2>1 DEF Start
<1>2. CASE ~Start(p)
    <2>1. op[p] \in Operation /\ Placed(op[p])
        BY DEF WorkInv, WorkTypeOK, LockInv
    <2>2. (p \in up \/ op[p].pc # "idle" \/ op[p] # Idle) /\ UNCHANGED swap
        BY <1>2 DEF Works, Continue, Write, CommitWrite, WriteRefused, RemoveFiles, CommitDelete,
               ReencryptTokens, ReencryptUrls, SeedIfEmpty, EnsureRevisions, CopyFiles, Publish,
               Doing, Stop, CommitLeftover, BeginReset, Fails, Crash, BeginCreate, BeginSave,
               BeginAsset, BeginDelete, BeginBackup, SaveSecret, EraseSecret, RotateKey,
               MayBegin, MaySave, MayWriteSecret
    <2>3. p \in up \/ Engaged(p)
        BY <2>1, <2>2, IsIdle DEF Engaged
    <2> QED BY <2>2, <2>3, NoSwap DEF WorkInv, WorkTypeOK
<1> QED BY <1>1, <1>2

LEMMA RestoreBegins ==
    ASSUME WorkInv, NEW p \in Procs, NEW b \in bundles, BeginRestore(p, b)
    PROVE  /\ LockInv' /\ SwapInv' /\ swap' \in Restore
           /\ pending' \in [Procs -> Database \cup {NoDb}]
           /\ pending[p] = NoDb \/ WorkDoes("crash_delete")
           /\ swap'.pc = "db_out" /\ swap'.new = b /\ swap'.old = [db |-> db, files |-> files]
           /\ \A q \in Procs : ~Engaged(q) /\ pending'[q] = NoDb /\ (q # p => pending[q] = NoDb)
           /\ Present /\ swap.pc = "idle"
<1>1. /\ p \in up /\ op[p] = Idle /\ up = {p} /\ up' = {} /\ \A q \in Procs : ~Locked(q)
      /\ UNCHANGED <<op, db, files>> /\ pending' = [pending EXCEPT ![p] = NoDb]
      /\ swap' = [NoRestore EXCEPT !.pc = "db_out", !.new = b,
                                   !.old = [db |-> db, files |-> files]]
      /\ pending[p] = NoDb \/ WorkDoes("crash_delete")
    BY DEF BeginRestore, MayBegin, Free, diskVars, Kept
<1>2. ASSUME NEW q \in Procs PROVE ~Engaged(q)
    <2>1. SUFFICES ASSUME Engaged(q) PROVE FALSE
        OBVIOUS
    <2>2. op[q].do = "rotate"
        BY <1>1, <2>1 DEF Locked, Engaged
    <2>3. q \in up
        BY <2>1, <2>2 DEF WorkInv, LockInv
    <2>4. q = p
        BY <1>1, <2>3
    <2> QED BY <1>1, <2>1, <2>4, Idles DEF Engaged
<1>3. Present
    BY <1>1, Open
<1>4. ASSUME NEW q \in Procs PROVE pending'[q] = NoDb /\ (q # p => pending[q] = NoDb)
    <2>1. q # p => pending[q] = NoDb
        BY <1>1 DEF WorkInv, LockInv
    <2> QED BY <1>1, <2>1 DEF WorkInv, WorkTypeOK
<1>5. LockInv'
    BY <1>1, <1>2, <1>4 DEF LockInv, WorkInv, Engaged, Locked, Placed
<1>6. b \in Bundle /\ b # NoDb /\ [db |-> db, files |-> files] \in [db: Database, files: Directory]
    BY <1>3, Kinds DEF WorkInv, WorkTypeOK, Present
<1>7. [db |-> db, files |-> files] # NoDb
    BY <1>6, Kinds
<1>8. /\ swap'.pc = "db_out" /\ swap'.new = b /\ swap'.old = [db |-> db, files |-> files]
      /\ swap' \in Restore
    BY <1>1, <1>6 DEF NoRestore, Restore
<1>9. swap'.old.db = db /\ swap'.old.files = files
    BY <1>8
<1>10. SwapInv'
    BY <1>1, <1>2, <1>6, <1>7, <1>8, <1>9 DEF SwapInv, Engaged, Moving
<1>11. pending' \in [Procs -> Database \cup {NoDb}]
    BY <1>1 DEF WorkInv, WorkTypeOK
<1>12. swap.pc = "idle"
    BY <1>1, NoSwap
<1> QED BY <1>1, <1>2, <1>3, <1>4, <1>5, <1>8, <1>10, <1>11, <1>12

LEMMA SwapSteps ==
    ASSUME WorkInv, SwapStep \/ RestoreFails \/ RestoreCrashes
    PROVE  /\ LockInv' /\ SwapInv' /\ swap' \in Restore /\ UNCHANGED <<op, up, pending>>
           /\ db' \in Database \cup {NoDb} /\ files' \in Directory \cup {NoFiles}
           /\ swap.pc \in Moving /\ up = {} /\ \A p \in Procs : ~Engaged(p) /\ pending[p] = NoDb
           /\ swap'.new = swap.new /\ swap'.old = swap.old
           /\ swap.new \in Bundle /\ swap.old \in [db: Database, files: Directory]
<1>1. swap.pc \in Moving /\ UNCHANGED <<op, up, pending>>
    BY DEF SwapStep, MoveDatabaseOut, MoveFilesOut, MoveDatabaseIn, MoveFilesIn, DropOldDatabase,
           DropOldFiles, RestoreFails, RestoreCrashes, Moving
<1>2. /\ up = {} /\ \A p \in Procs : ~Engaged(p) /\ pending[p] = NoDb
      /\ swap.new \in Bundle /\ swap.old # NoDb /\ swap \in Restore
    BY <1>1 DEF WorkInv, WorkTypeOK, SwapInv, LockInv, Moving
<1>3. /\ swap.old \in [db: Database, files: Directory]
      /\ swap.rolled \in [db: Database \cup {NoDb}, files: Directory \cup {NoFiles}]
    BY <1>2 DEF Restore
<1>4. LockInv'
    BY <1>1, <1>2 DEF LockInv, WorkInv, Engaged, Locked, Placed
<1>5. \A p \in Procs : ~Engaged(p)'
    BY <1>1, <1>2 DEF Engaged
<1>6. db \in Database \cup {NoDb} /\ files \in Directory \cup {NoFiles}
    BY DEF WorkInv, WorkTypeOK
<1>7. swap.new.db \in Database /\ swap.new.files \in Directory
    BY <1>2 DEF Bundle
<1> DEFINE Goal == /\ swap' \in Restore /\ SwapInv'
                   /\ db' \in Database \cup {NoDb} /\ files' \in Directory \cup {NoFiles}
                   /\ swap'.new = swap.new /\ swap'.old = swap.old
<1>8. ASSUME MoveDatabaseOut PROVE Goal
    <2>1. /\ swap.pc = "db_out" /\ db' = NoDb /\ UNCHANGED files
          /\ swap' = [swap EXCEPT !.pc = "files_out", !.rolled.db = db]
        BY <1>8 DEF MoveDatabaseOut
    <2>2. /\ swap' \in Restore /\ swap'.new = swap.new /\ swap'.old = swap.old
          /\ swap'.pc = "files_out" /\ swap'.rolled.db = db
        BY <1>2, <1>6, <2>1 DEF Restore
    <2>3. db = swap.old.db /\ files = swap.old.files
        BY <2>1 DEF WorkInv, SwapInv
    <2>4. SwapInv'
        BY <1>1, <1>2, <1>5, <2>1, <2>2, <2>3 DEF SwapInv, Moving
    <2> QED BY <1>6, <2>1, <2>2, <2>4
<1>9. ASSUME MoveFilesOut PROVE Goal
    <2>1. /\ swap.pc = "files_out" /\ files' = NoFiles /\ UNCHANGED db
          /\ swap' = [swap EXCEPT !.pc = "db_in", !.rolled.files = files]
        BY <1>9 DEF MoveFilesOut
    <2>2. /\ swap' \in Restore /\ swap'.new = swap.new /\ swap'.old = swap.old
          /\ swap'.pc = "db_in" /\ swap'.rolled = [swap.rolled EXCEPT !.files = files]
        BY <1>2, <1>6, <2>1 DEF Restore
    <2>3. swap.rolled.db = swap.old.db /\ files = swap.old.files
        BY <2>1 DEF WorkInv, SwapInv
    <2>4. swap'.rolled = [db |-> swap.old.db, files |-> swap.old.files]
        BY <1>3, <2>2, <2>3
    <2>5. swap'.rolled = swap'.old
        BY <1>3, <2>2, <2>4
    <2>6. SwapInv'
        BY <1>1, <1>2, <1>5, <2>1, <2>2, <2>5 DEF SwapInv, Moving
    <2> QED BY <1>6, <2>1, <2>2, <2>6
<1>10. ASSUME MoveDatabaseIn PROVE Goal
    <2>1. /\ swap.pc = "db_in" /\ db' = swap.new.db /\ UNCHANGED files
          /\ swap' = [swap EXCEPT !.pc = "files_in"]
        BY <1>10 DEF MoveDatabaseIn, SwapTo
    <2>2. /\ swap' \in Restore /\ swap'.new = swap.new /\ swap'.old = swap.old
          /\ swap'.pc = "files_in" /\ swap'.rolled = swap.rolled
        BY <1>2, <2>1 DEF Restore
    <2>3. swap.rolled = swap.old
        BY <2>1 DEF WorkInv, SwapInv
    <2>4. SwapInv'
        BY <1>1, <1>2, <1>5, <2>1, <2>2, <2>3 DEF SwapInv, Moving
    <2> QED BY <1>6, <1>7, <2>1, <2>2, <2>4
<1>11. ASSUME MoveFilesIn PROVE Goal
    <2>1. /\ swap.pc = "files_in" /\ files' = swap.new.files /\ UNCHANGED db
          /\ swap' = [swap EXCEPT !.pc = "drop_db"]
        BY <1>11 DEF MoveFilesIn, SwapTo
    <2>2. /\ swap' \in Restore /\ swap'.new = swap.new /\ swap'.old = swap.old
          /\ swap'.pc = "drop_db" /\ swap'.rolled = swap.rolled
        BY <1>2, <2>1 DEF Restore
    <2>3. swap.rolled = swap.old /\ db = swap.new.db
        BY <2>1 DEF WorkInv, SwapInv
    <2>4. SwapInv'
        BY <1>1, <1>2, <1>5, <2>1, <2>2, <2>3 DEF SwapInv, Moving
    <2> QED BY <1>6, <1>7, <2>1, <2>2, <2>4
<1>12. ASSUME DropOldDatabase \/ DropOldFiles PROVE Goal
    <2>1. /\ swap.pc \in {"drop_db", "drop_files"} /\ UNCHANGED <<db, files>>
          /\ \/ swap' = [swap EXCEPT !.pc = "drop_files", !.rolled.db = NoDb]
             \/ swap' = [swap EXCEPT !.pc = "done", !.rolled.files = NoFiles]
        BY <1>12 DEF DropOldDatabase, DropOldFiles, diskVars
    <2> DEFINE Left == [db: Database \cup {NoDb}, files: Directory \cup {NoFiles}]
               x == [swap.rolled EXCEPT !.db = NoDb]
               y == [swap.rolled EXCEPT !.files = NoFiles]
    <2>5. x \in Left /\ y \in Left
        BY <1>3
    <2>6. \/ swap' = [swap EXCEPT !.pc = "drop_files", !.rolled = x]
          \/ swap' = [swap EXCEPT !.pc = "done", !.rolled = y]
        BY <1>2, <2>1 DEF Restore
    <2> HIDE DEF x, y
    <2>2. /\ swap' \in Restore /\ swap'.new = swap.new /\ swap'.old = swap.old
          /\ swap'.pc \in {"drop_files", "done"}
        BY <1>2, <2>5, <2>6 DEF Restore
    <2>3. db = swap.new.db /\ files = swap.new.files
        BY <2>1 DEF WorkInv, SwapInv
    <2>4. SwapInv'
        BY <1>1, <1>2, <1>5, <2>1, <2>2, <2>3 DEF SwapInv, Moving
    <2> QED BY <1>6, <2>1, <2>2, <2>4
<1>13. ASSUME RestoreFails \/ RestoreCrashes PROVE Goal
    <2>1. /\ swap' = [swap EXCEPT !.pc = "failed"] \/ swap' = [swap EXCEPT !.pc = "cut"]
          /\ (db' = db /\ files' = files) \/ (db' = swap.rolled.db /\ files' = swap.rolled.files)
        BY <1>13 DEF RestoreFails, RestoreCrashes, SwapTo, diskVars, FilesBack
    <2>2. /\ swap' \in Restore /\ swap'.new = swap.new /\ swap'.old = swap.old
          /\ swap'.pc \in {"failed", "cut"}
        BY <1>2, <2>1 DEF Restore
    <2>3. SwapInv'
        BY <1>1, <1>2, <1>5, <2>1, <2>2 DEF SwapInv, Moving
    <2> QED BY <1>3, <1>6, <2>1, <2>2, <2>3
<1> QED BY <1>1, <1>2, <1>3, <1>4, <1>8, <1>9, <1>10, <1>11, <1>12, <1>13 DEF SwapStep

(* Which steps of a process touch the histories, the keys and the bundles. *)
LEMMA Untouched ==
    ASSUME NEW p \in Procs, Works(p)
    PROVE  /\ UNCHANGED <<workScope, clock>>
           /\ \/ UNCHANGED torn
              \/ CommitWrite(p) \/ WriteRefused(p) \/ CommitDelete(p)
              \/ BeginReset(p) \/ Fails(p) \/ Crash(p)
           /\ UNCHANGED trouble \/ Fails(p) \/ Crash(p)
           /\ UNCHANGED bundles \/ Publish(p)
           /\ \/ UNCHANGED latest
              \/ BeginReset(p) \/ \E s \in Slots : SaveSecret(p, s) \/ EraseSecret(p, s)
           /\ \/ UNCHANGED keyring
              \/ ReencryptUrls(p) \/ \E key \in Keys : RotateKey(p, key)
<1>1. CASE Continue(p)
    BY <1>1 DEF Continue, Write, CommitWrite, WriteRefused, RemoveFiles, CommitDelete,
           ReencryptTokens, ReencryptUrls, SeedIfEmpty, EnsureRevisions, CopyFiles, Publish,
           secretVars
<1>2. CASE Start(p) \/ Stop(p) \/ CommitLeftover(p) \/ BeginReset(p) \/ Fails(p) \/ Crash(p)
    BY <1>2 DEF Start, Stop, CommitLeftover, BeginReset, Fails, Crash, secretVars
<1>3. CASE \E a \in Articles : \/ \E text \in Texts : BeginCreate(p, a, text)
                               \/ \E text \in Text : BeginSave(p, a, text)
                               \/ BeginAsset(p, a) \/ BeginDelete(p, a)
    BY <1>3 DEF BeginCreate, BeginSave, BeginAsset, BeginDelete, secretVars
<1>4. CASE \E o \in {"backup", "due"} : BeginBackup(p, o)
    BY <1>4 DEF BeginBackup, secretVars
<1>5. CASE \E s \in Slots : SaveSecret(p, s) \/ EraseSecret(p, s)
    BY <1>5 DEF SaveSecret, EraseSecret
<1>6. CASE \E key \in Keys : RotateKey(p, key)
    BY <1>6 DEF RotateKey
<1> QED BY <1>1, <1>2, <1>3, <1>4, <1>5, <1>6 DEF Works

Histories ==
    /\ workScope \in WorkScopes
    /\ torn \subseteq Articles /\ \A b \in bundles : b \in Bundle
    /\ latest \in [Slots -> 0..2]
    /\ keyring \in [active: Keys, keys: SUBSET Keys, settled: BOOLEAN]
    /\ keyring.active \in keyring.keys
    /\ clock \in 0..MaxTime /\ trouble \in 0..MaxTrouble

LEMMA WorkHistories ==
    ASSUME WorkInv, NEW p \in Procs, Works(p)
    PROVE  Histories'
<1>1. Histories
    BY DEF WorkInv, WorkTypeOK, Histories
<1>2. /\ op[p] \in Operation
      /\ op[p].pc = "publish" => op[p].snap \in Database /\ op[p].copy \in Directory
    BY Standing DEF WorkInv, WorkTypeOK
<1>3. torn' \subseteq Articles
    <2>1. Cut(p) \subseteq Articles
        BY <1>2 DEF Cut, Operation
    <2> QED BY <1>1, <2>1, Untouched DEF Histories, CommitWrite, WriteRefused, CommitDelete,
                BeginReset, Fails, Crash, Torn
<1>4. trouble' \in 0..MaxTrouble
    BY <1>1, Untouched, WorkAssumption DEF Histories, Fails, Crash, Trouble
<1>5. \A b \in bundles' : b \in Bundle
    <2>1. CASE UNCHANGED bundles
        BY <1>1, <2>1 DEF Histories
    <2>2. CASE Publish(p)
        <3> DEFINE new == [at |-> clock, db |-> op[p].snap, files |-> op[p].copy, torn |-> torn,
                           sound |-> TRUE]
        <3>1. new \in Bundle
            BY <1>1, <1>2, <2>2 DEF Publish, Histories, Bundle
        <3> HIDE DEF new
        <3>2. bundles' = bundles \/ bundles' = Pruned(bundles \cup {new})
            BY <2>2 DEF Publish, new
        <3> QED BY <1>1, <3>1, <3>2 DEF Pruned, Histories
    <2> QED BY <2>1, <2>2, Untouched
<1>6. latest' \in [Slots -> 0..2]
    <2>1. ASSUME NEW s \in Slots, SaveSecret(p, s) \/ EraseSecret(p, s)
          PROVE  latest' \in [Slots -> 0..2]
        BY <1>1, <2>1 DEF SaveSecret, EraseSecret, Histories
    <2>2. CASE BeginReset(p)
        BY <2>2 DEF BeginReset
    <2> QED BY <1>1, <2>1, <2>2, Untouched DEF Histories
<1> DEFINE Ring == /\ keyring' \in [active: Keys, keys: SUBSET Keys, settled: BOOLEAN]
                   /\ keyring'.active \in keyring'.keys
<1>7. Ring
    <2>1. ASSUME NEW key \in Keys, RotateKey(p, key)
          PROVE  Ring
        BY <1>1, <2>1 DEF RotateKey, Histories, WithKey
    <2>2. CASE ReencryptUrls(p)
        BY <1>1, <2>2 DEF ReencryptUrls, Histories
    <2>3. CASE UNCHANGED keyring
        BY <1>1, <2>3 DEF Histories
    <2> QED BY <2>1, <2>2, <2>3, Untouched
<1> QED BY <1>1, <1>3, <1>4, <1>5, <1>6, <1>7, Untouched DEF Histories

LEMMA OtherHistories ==
    ASSUME WorkInv, Nobody \/ \E p \in Procs : Restores(p)
    PROVE  Histories'
<1>1. Histories
    BY DEF WorkInv, WorkTypeOK, Histories
<1>2. CASE \E p \in Procs : Restores(p)
    BY <1>1, <1>2 DEF Restores, BeginRestore, Histories, secretVars
<1>3. CASE SwapStep /\ ~DropOldFiles
    BY <1>1, <1>3 DEF SwapStep, MoveDatabaseOut, MoveFilesOut, MoveDatabaseIn, MoveFilesIn,
           DropOldDatabase, Histories, secretVars
<1>4. CASE DropOldFiles
    <2>1. /\ torn' = swap.new.torn /\ latest' = [s \in Slots |-> db.secrets[s].val]
          /\ keyring' = [keyring EXCEPT !.settled = FALSE]
          /\ swap.pc = "drop_files" /\ UNCHANGED <<workScope, bundles, clock, trouble>>
        BY <1>4 DEF DropOldFiles
    <2>2. swap.new \in Bundle /\ db = swap.new.db
        BY <2>1 DEF WorkInv, SwapInv, Moving
    <2>3. torn' \subseteq Articles /\ db \in Database
        BY <2>1, <2>2 DEF Bundle
    <2>4. \A s \in Slots : db.secrets[s].val \in 0..2
        <3>1. ASSUME NEW secret \in Secret PROVE secret.val \in 0..2
            <4>1. CASE secret = NoSecret
                BY <4>1 DEF NoSecret
            <4>2. CASE secret \in [row: {TRUE}, key: Keys \cup {0}, val: 0..2]
                BY <4>2
            <4> QED BY <4>1, <4>2 DEF Secret
        <3>2. \A s \in Slots : db.secrets[s] \in Secret
            BY <2>3 DEF Database
        <3> QED BY <3>1, <3>2
    <2> QED BY <1>1, <2>1, <2>3, <2>4 DEF Histories
<1>5. CASE RestoreFails \/ RestoreCrashes
    BY <1>1, <1>5, WorkAssumption DEF RestoreFails, RestoreCrashes, Trouble, Histories, secretVars
<1>6. CASE RetireKeys
    BY <1>1, <1>6 DEF RetireKeys, Retired, Histories
<1>7. CASE Tick
    BY <1>1, <1>7, WorkAssumption DEF Tick, Histories, secretVars
<1>8. ASSUME NEW b \in bundles, NEW a \in Articles, Damage(b, a) PROVE Histories'
    <2> DEFINE f == [b.files EXCEPT !.body[a] = "none"]
               new == [b EXCEPT !.sound = FALSE, !.files = f]
    <2>1. b \in Bundle
        BY <1>1 DEF Histories
    <2>2. f \in Directory
        BY <2>1, BodyWritten DEF Bundle
    <2>3. bundles' = (bundles \ {b}) \cup {new}
        BY <1>8, <2>1 DEF Damage, Bundle
    <2> HIDE DEF f
    <2>4. new \in Bundle
        BY <2>1, <2>2 DEF Bundle
    <2> HIDE DEF new
    <2> QED BY <1>1, <1>8, <2>3, <2>4, WorkAssumption DEF Damage, Trouble, Histories, secretVars
<1> QED BY <1>2, <1>3, <1>4, <1>5, <1>6, <1>7, <1>8 DEF Nobody

-----------------------------------------------------------------------------
(* The invariant and its theorem.                                          *)

LEMMA OthersStand ==
    ASSUME WorkInv, \/ RetireKeys \/ Tick \/ \E b \in bundles, a \in Articles : Damage(b, a)
    PROVE  /\ LockInv' /\ SwapInv' /\ UNCHANGED <<diskVars, pending, op, up, swap>>
<1>1. UNCHANGED <<db, files, pending, op, up, swap>>
    BY DEF RetireKeys, Tick, Damage, diskVars
<1> QED BY <1>1 DEF WorkInv, LockInv, SwapInv, Engaged, Locked, Present, diskVars

LEMMA WorkKept ==
    ASSUME WorkInv, WorkNext
    PROVE  WorkInv'
<1>1. CASE \E p \in Procs : Works(p)
    <2>1. PICK p \in Procs : Works(p)
        BY <1>1
    <2>2. PICK o \in Operation : OpStep(p, o)
        BY <2>1, WorkSteps
    <2>3. DiskStep(p)
        BY <2>1, WorkSteps
    <2>4. LockInv'
        BY <2>2, <2>3, LockWork
    <2>5. SwapInv' /\ swap' \in Restore
        BY <2>1, SwapWork DEF SwapInv, Moving
    <2>6. up' \subseteq Procs /\ op' \in [Procs -> Operation]
        BY <2>2 DEF OpStep, WorkInv, WorkTypeOK
    <2>7. /\ db' \in Database /\ files' \in Directory
          /\ pending' \in [Procs -> Database \cup {NoDb}]
        BY <2>3 DEF DiskStep, Present, WorkInv, WorkTypeOK
    <2>8. Histories'
        BY <2>1, WorkHistories
    <2> QED BY <2>4, <2>5, <2>6, <2>7, <2>8 DEF WorkInv, WorkTypeOK, Histories
<1>2. CASE \E p \in Procs : Restores(p)
    <2>1. PICK p \in Procs, b \in bundles : BeginRestore(p, b)
        BY <1>2 DEF Restores
    <2>2. /\ LockInv' /\ SwapInv' /\ swap' \in Restore
          /\ pending' \in [Procs -> Database \cup {NoDb}]
        BY <2>1, RestoreBegins
    <2>3. UNCHANGED <<db, files, op>> /\ up' = {}
        BY <2>1 DEF BeginRestore, diskVars
    <2>4. Histories'
        BY <1>2, OtherHistories
    <2> QED BY <2>2, <2>3, <2>4 DEF WorkInv, WorkTypeOK, Histories
<1>3. CASE SwapStep \/ RestoreFails \/ RestoreCrashes
    <2>1. Histories'
        BY <1>3, OtherHistories DEF Nobody
    <2> QED BY <1>3, <2>1, SwapSteps DEF WorkInv, WorkTypeOK, Histories
<1>4. CASE \/ RetireKeys \/ Tick \/ \E b \in bundles, a \in Articles : Damage(b, a)
    <2>1. Histories'
        BY <1>4, OtherHistories DEF Nobody
    <2> QED BY <1>4, <2>1, OthersStand DEF WorkInv, WorkTypeOK, Histories, diskVars
<1> QED BY <1>1, <1>2, <1>3, <1>4, Actors DEF Nobody

LEMMA WorkIdles ==
    ASSUME WorkInv, UNCHANGED workVars
    PROVE  WorkInv'
BY DEF WorkInv, WorkTypeOK, LockInv, SwapInv, Engaged, Locked, Present, workVars, diskVars, secretVars

LEMMA WorkBegins ==
    ASSUME WorkInit
    PROVE  WorkInv
<1>1. /\ workScope \in WorkScopes /\ db = NoDb /\ files = NoFiles
      /\ pending = [p \in Procs |-> NoDb] /\ op = [p \in Procs |-> Idle]
      /\ up = {} /\ bundles = {} /\ swap = NoRestore /\ torn = {}
      /\ latest = [s \in Slots |-> 0]
      /\ keyring = [active |-> 1, keys |-> {1}, settled |-> FALSE]
      /\ clock = 0 /\ trouble = 0
    BY DEF WorkInit
<1>2. NoRestore \in Restore /\ NoRestore.pc = "idle"
    BY DEF NoRestore, Restore
<1>3. WorkTypeOK
    BY <1>1, <1>2, WorkAssumption, Idles DEF WorkTypeOK
<1>4. LockInv
    BY <1>1, Idles DEF LockInv, Engaged, Locked
<1>5. SwapInv
    BY <1>1, <1>2 DEF SwapInv, Moving
<1> QED BY <1>3, <1>4, <1>5 DEF WorkInv

(* Types of the whole workspace, with the lock that one process holds, the *)
(* transaction that one connection has, and the restore that stands alone. *)
THEOREM WorkTypes == WorkSpec => []WorkTypeOK
<1>1. WorkInv /\ [WorkNext]_workVars => WorkInv'
    BY WorkKept, WorkIdles
<1>2. WorkInv => WorkTypeOK
    BY DEF WorkInv
<1> QED BY <1>1, <1>2, WorkBegins, PTL DEF WorkSpec

LEMMA WorkAlways == WorkSpec => []WorkInv
<1>1. WorkInv /\ [WorkNext]_workVars => WorkInv'
    BY WorkKept, WorkIdles
<1> QED BY <1>1, WorkBegins, PTL DEF WorkSpec

LEMMA ScopeStands ==
    ASSUME [WorkNext]_workVars
    PROVE  UNCHANGED workScope
<1>1. CASE \E p \in Procs : Works(p)
    BY <1>1, Untouched
<1>2. CASE \E p \in Procs : Restores(p)
    BY <1>2 DEF Restores, BeginRestore
<1>3. CASE Nobody
    BY <1>3 DEF Nobody, SwapStep, MoveDatabaseOut, MoveFilesOut, MoveDatabaseIn, MoveFilesIn,
           DropOldDatabase, DropOldFiles, RestoreFails, RestoreCrashes, RetireKeys, Tick, Damage
<1>4. CASE UNCHANGED workVars
    BY <1>4 DEF workVars
<1> QED BY <1>1, <1>2, <1>3, <1>4, Actors

-----------------------------------------------------------------------------
(* Restore.                                                                *)

(* No restore is killed, and none fails while the old files move out or    *)
(* the new ones are already the only ones.                                 *)
Whole == workScope \cap {"crash_restore", "replace_early"} = {}

(* What was there before a restore that failed is there again, and no      *)
(* database is without its files.                                          *)
Settled ==
    /\ swap.pc # "cut"
    /\ swap.pc = "failed" => db = swap.old.db /\ files = swap.old.files
    /\ swap.pc \notin Moving /\ db # NoDb => files # NoFiles

LEMMA RollsBack ==
    ASSUME WorkInv, Whole, RestoreFails
    PROVE  db' = swap.old.db /\ files' = swap.old.files
<1>1. swap.pc \in {"db_in", "files_in", "drop_db"}
    BY DEF RestoreFails, Whole, WorkDoes
<1>2. swap.rolled = swap.old
    BY <1>1 DEF WorkInv, SwapInv
<1> QED BY <1>2 DEF RestoreFails, FilesBack

LEMMA NoCrash ==
    ASSUME Whole PROVE ~RestoreCrashes
BY DEF Whole, RestoreCrashes, WorkDoes

LEMMA SettledKept ==
    ASSUME WorkInv, Whole, Settled, WorkNext
    PROVE  Settled'
<1>1. CASE \E p \in Procs : Works(p)
    <2>1. PICK p \in Procs : Works(p)
        BY <1>1
    <2>2. swap'.pc = "idle"
        BY <2>1, SwapWork
    <2>3. files' # NoFiles
        BY <2>1, WorkSteps, Kinds DEF DiskStep, Present
    <2> QED BY <2>2, <2>3 DEF Settled
<1>2. CASE \E p \in Procs : Restores(p)
    <2>1. swap'.pc = "db_out"
        BY <1>2, RestoreBegins DEF Restores
    <2> QED BY <2>1 DEF Settled, Moving
<1>3. CASE SwapStep
    <2>1. CASE swap'.pc \in Moving
        BY <2>1 DEF Settled, Moving
    <2>2. CASE swap'.pc \notin Moving
        <3>1. swap \in Restore
            BY DEF WorkInv, WorkTypeOK
        <3>2. DropOldFiles
            BY <1>3, <2>2, <3>1 DEF SwapStep, MoveDatabaseOut, MoveFilesOut, MoveDatabaseIn,
                   MoveFilesIn, DropOldDatabase, SwapTo, Restore, Moving
        <3>3. swap'.pc = "done" /\ files' = files /\ files = swap.new.files /\ swap.new \in Bundle
            BY <3>1, <3>2 DEF DropOldFiles, Restore, diskVars, WorkInv, SwapInv, Moving
        <3> QED BY <3>3, Kinds DEF Settled, Bundle
    <2> QED BY <2>1, <2>2
<1>4. CASE RestoreFails
    <2>1. swap'.pc = "failed"
        BY <1>4 DEF RestoreFails, SwapTo, WorkInv, WorkTypeOK, Restore
    <2>2. swap'.old = swap.old /\ swap.old \in [db: Database, files: Directory]
        BY <1>4, SwapSteps
    <2> QED BY <1>4, <2>1, <2>2, RollsBack, Kinds DEF Settled
<1>5. CASE \/ RetireKeys \/ Tick \/ \E b \in bundles, a \in Articles : Damage(b, a)
    BY <1>5, OthersStand DEF Settled, diskVars
<1> QED BY <1>1, <1>2, <1>3, <1>4, <1>5, NoCrash, Actors DEF Nobody

LEMMA WholeAlways == WorkSpec => [](Whole => Settled)
<1>1. ASSUME WorkInv, Whole => Settled, [WorkNext]_workVars PROVE (Whole => Settled)'
    <2>1. Whole' = Whole
        BY <1>1, ScopeStands DEF Whole
    <2>2. CASE UNCHANGED workVars
        BY <1>1, <2>1, <2>2 DEF workVars, diskVars, Settled
    <2> QED BY <1>1, <2>1, <2>2, SettledKept
<1>2. WorkInit => (Whole => Settled)
    BY DEF WorkInit, Settled, NoRestore
<1> QED BY <1>1, <1>2, WorkAlways, PTL DEF WorkSpec

(* A restore that ends has put database and files of the bundle in place,  *)
(* and one that failed has put both back (backups.py restore_backup),      *)
(* unless it is killed or its first or last moves fail.                    *)
THEOREM AllOrNothing == WorkSpec => [](Whole => RestoreIsAtomic)
<1>1. WorkInv /\ Settled => RestoreIsAtomic
    BY DEF WorkInv, SwapInv, Settled, RestoreIsAtomic
<1> QED BY <1>1, WorkAlways, WholeAlways, PTL

-----------------------------------------------------------------------------
(* Secrets.                                                                *)

(* Restores are whole, and nobody saves a token while another process is   *)
(* about to re-encrypt the one it read, retires keys before a restart, or  *)
(* restores a bundle whose keys are gone.                                  *)
Guarded == Whole /\ workScope \cap {"online", "early", "old"} = {}

Unlost(secrets, keys, given) ==
    \A s \in Slots : secrets[s].key \in {0} \cup keys /\ secrets[s].val = given[s]
Fresh(secrets, key) == \A s \in Slots : secrets[s].key \in {0, key}
(* What a process read before it re-encrypts is what was saved last, or    *)
(* needs no writing, or has been erased with its row.                      *)
Reencrypting(o, secrets, key, given) ==
    /\ o.pc = "tokens" =>
          LET secret == o.snap.secrets["token"] IN
          IF secret.key \notin {0, key} THEN secrets["token"].row => secret.val = given["token"]
          ELSE secrets["token"].key \in {0, key}
    /\ o.pc = "urls" => /\ secrets["token"].key \in {0, key}
                        /\ o.snap.secrets["url"] = secrets["url"]
Safe(secrets) ==
    /\ Unlost(secrets, keyring.keys, latest)
    /\ keyring.settled => Fresh(secrets, keyring.active)
SecretInv ==
    /\ \A p \in Procs : pending[p] # NoDb => pending[p].secrets = db.secrets
    /\ swap.pc \notin Moving =>
          IF db = NoDb THEN latest = [s \in Slots |-> 0] ELSE Safe(db.secrets)
    /\ swap.pc \in Moving =>
          /\ Safe(swap.old.db.secrets)
          /\ \A s \in Slots : swap.new.db.secrets[s].key \in {0} \cup keyring.keys
    /\ \A p \in Procs : Reencrypting(op[p], db.secrets, keyring.active, latest)

(* One connection's writes leave the secrets, and nobody begins to read    *)
(* them.                                                                   *)
Plain(p) ==
    \/ Write(p) \/ CommitWrite(p) \/ WriteRefused(p) \/ RemoveFiles(p) \/ CommitDelete(p)
    \/ SeedIfEmpty(p) \/ EnsureRevisions(p) \/ CopyFiles(p) \/ Publish(p)
    \/ Stop(p) \/ CommitLeftover(p) \/ Fails(p) \/ Crash(p)
    \/ \E a \in Articles :
          \/ \E text \in Texts : BeginCreate(p, a, text)
          \/ \E text \in Text : BeginSave(p, a, text)
          \/ BeginAsset(p, a) \/ BeginDelete(p, a)
    \/ \E o \in {"backup", "due"} : BeginBackup(p, o)

LEMMA PlainOnes ==
    ASSUME NEW p \in Procs, Works(p)
    PROVE  \/ Plain(p) \/ ReencryptTokens(p) \/ ReencryptUrls(p) \/ Start(p) \/ BeginReset(p)
           \/ \E s \in Slots : SaveSecret(p, s) \/ EraseSecret(p, s)
           \/ \E key \in Keys : RotateKey(p, key)
BY DEF Works, Continue, Plain

LEMMA PlainIsOpen ==
    ASSUME WorkInv, NEW p \in Procs, Plain(p)
    PROVE  /\ p \in up \/ Engaged(p)
           /\ Present /\ View(p) \in Database /\ swap.pc = "idle" /\ UNCHANGED secretVars
           /\ op'[p].pc \notin {"tokens", "urls"}
<1>1. op[p] \in Operation /\ Placed(op[p])
    BY DEF WorkInv, WorkTypeOK, LockInv
<1>2. p \in up \/ op[p].pc # "idle" \/ op[p] # Idle
    BY DEF Plain, Write, CommitWrite, WriteRefused, RemoveFiles, CommitDelete, SeedIfEmpty,
           EnsureRevisions, CopyFiles, Publish, Doing, Stop, CommitLeftover, Fails, Crash,
           BeginCreate, BeginSave, BeginAsset, BeginDelete, BeginBackup, MayBegin, MaySave
<1>3. p \in up \/ Engaged(p)
    BY <1>1, <1>2, IsIdle DEF Engaged
<1>4. UNCHANGED secretVars
    BY DEF Plain, Write, CommitWrite, WriteRefused, RemoveFiles, CommitDelete, SeedIfEmpty,
           EnsureRevisions, CopyFiles, Publish, Stop, CommitLeftover, Fails, Crash,
           BeginCreate, BeginSave, BeginAsset, BeginDelete, BeginBackup
<1>5. op'[p].pc \notin {"tokens", "urls"}
    <2>0. op \in [Procs -> Operation]
        BY DEF WorkInv, WorkTypeOK
    <2>1. ASSUME NEW pc \in {"commit", "seed", "revise"}, Goto(p, pc)
          PROVE  op'[p].pc \notin {"tokens", "urls"}
        BY <1>1, <2>0, <2>1 DEF Goto, To, Operation
    <2>2. ASSUME To(p, Idle) PROVE op'[p].pc \notin {"tokens", "urls"}
        BY <2>0, <2>2, Idles DEF To
    <2>3. ASSUME UNCHANGED op, op[p] = Idle PROVE op'[p].pc \notin {"tokens", "urls"}
        BY <2>3, Idles
    <2>4. ASSUME CopyFiles(p) PROVE op'[p].pc \notin {"tokens", "urls"}
        BY <1>1, <2>0, <2>4 DEF CopyFiles, To, Operation
    <2>5. ASSUME NEW a \in Articles, NEW text,
                 BeginCreate(p, a, text) \/ BeginSave(p, a, text)
                 \/ BeginAsset(p, a) \/ BeginDelete(p, a)
          PROVE  op'[p].pc \notin {"tokens", "urls"}
        BY <2>0, <2>5, Idles DEF BeginCreate, BeginSave, BeginAsset, BeginDelete, To, Operation
    <2>6. ASSUME NEW o, BeginBackup(p, o) PROVE op'[p].pc \notin {"tokens", "urls"}
        BY <2>0, <2>6, Idles DEF BeginBackup, To, Operation
    <2>7. CASE Write(p) \/ RemoveFiles(p) \/ SeedIfEmpty(p)
        BY <2>1, <2>7 DEF Write, RemoveFiles, SeedIfEmpty
    <2>8. CASE CommitWrite(p) \/ WriteRefused(p) \/ CommitDelete(p) \/ EnsureRevisions(p)
               \/ Publish(p) \/ Fails(p) \/ Crash(p)
        BY <2>2, <2>8 DEF CommitWrite, WriteRefused, CommitDelete, EnsureRevisions, Publish,
               Fails, Crash
    <2>9. CASE Stop(p) \/ CommitLeftover(p)
        BY <2>3, <2>9 DEF Stop, CommitLeftover
    <2> QED BY <2>4, <2>5, <2>6, <2>7, <2>8, <2>9 DEF Plain
<1> QED BY <1>3, <1>4, <1>5, Open, NoSwap

(* Such a step leaves the committed secrets, and a transaction holds them. *)
LEMMA PlainSecrets ==
    ASSUME WorkInv, NEW p \in Procs, Plain(p),
           pending[p] # NoDb => pending[p].secrets = db.secrets
    PROVE  /\ db'.secrets = db.secrets
           /\ pending'[p] # NoDb => pending'[p].secrets = db.secrets
<1>1. /\ View(p) \in Database /\ files \in Directory /\ View(p).secrets = db.secrets
      /\ pending \in [Procs -> Database \cup {NoDb}] /\ op[p] \in Operation
    BY PlainIsOpen DEF View, Present, WorkInv, WorkTypeOK
<1> DEFINE Goal == /\ db'.secrets = db.secrets
                   /\ pending'[p] # NoDb => pending'[p].secrets = db.secrets
<1>2. ASSUME NEW d \in Database, Commit(p, d), d.secrets = db.secrets PROVE Goal
    BY <1>1, <1>2 DEF Commit
<1>3. ASSUME UNCHANGED db, UNCHANGED pending \/ pending' = [pending EXCEPT ![p] = NoDb]
      PROVE  Goal
    BY <1>1, <1>3
<1>4. ASSUME NEW a \in Articles, BeginDelete(p, a) PROVE Goal
    <2> DEFINE d == [View(p) EXCEPT !.rows[a] = "none", !.assets = @ \ {a}]
    <2>1. d \in Database /\ d.secrets = db.secrets
        BY <1>1, RowDeleted
    <2>2. UNCHANGED db /\ pending' = [pending EXCEPT ![p] = d]
        BY <1>4 DEF BeginDelete, diskVars
    <2> HIDE DEF d
    <2> QED BY <1>1, <2>1, <2>2
<1>5. ASSUME CommitWrite(p) PROVE Goal
    <2> DEFINE d == Written(View(p), op[p])
    <2>1. op[p].art \in Articles /\ op[p].text \in Text
        BY <1>1 DEF Operation
    <2>2. d \in Database /\ d.secrets = db.secrets
        BY <1>1, <2>1, AssetWritten, RowWritten DEF Written
    <2> HIDE DEF d
    <2> QED BY <1>2, <1>5, <2>2 DEF CommitWrite, d
<1>6. ASSUME CommitDelete(p) PROVE Goal
    BY <1>1, <1>2, <1>6 DEF CommitDelete
<1>7. ASSUME SeedIfEmpty(p) PROVE Goal
    <2> DEFINE d == [View(p) EXCEPT !.rows[Seed] = "new"]
    <2>1. d \in Database /\ d.secrets = db.secrets
        BY <1>1, RowWritten, WorkAssumption
    <2>2. UNCHANGED <<diskVars, pending>> \/ Commit(p, d)
        BY <1>7 DEF SeedIfEmpty
    <2> HIDE DEF d
    <2> QED BY <1>2, <1>3, <2>1, <2>2 DEF diskVars
<1>8. ASSUME EnsureRevisions(p) PROVE Goal
    <2>1. Revised(View(p)) \in Database /\ Revised(View(p)).secrets = db.secrets
        BY <1>1, RowsRevised
    <2> QED BY <1>2, <1>8, <2>1 DEF EnsureRevisions
<1>9. ASSUME CommitLeftover(p) PROVE Goal
    <2>1. pending[p] \in Database /\ pending[p].secrets = db.secrets /\ Commit(p, pending[p])
        BY <1>1, <1>9 DEF CommitLeftover
    <2> QED BY <1>2, <2>1
<1>10. CASE Write(p) \/ WriteRefused(p) \/ RemoveFiles(p) \/ CopyFiles(p) \/ Publish(p)
            \/ Stop(p) \/ Fails(p) \/ Crash(p)
    BY <1>3, <1>10 DEF Write, WriteRefused, RemoveFiles, CopyFiles, Publish, Stop, Fails, Crash,
           diskVars
<1>11. CASE \/ \E a \in Articles : \/ \E text \in Texts : BeginCreate(p, a, text)
                                   \/ \E text \in Text : BeginSave(p, a, text)
                                   \/ BeginAsset(p, a)
            \/ \E o \in {"backup", "due"} : BeginBackup(p, o)
    BY <1>3, <1>11 DEF BeginCreate, BeginSave, BeginAsset, BeginBackup, diskVars
<1> QED BY <1>4, <1>5, <1>6, <1>7, <1>8, <1>9, <1>10, <1>11 DEF Plain

LEMMA OneMoves ==
    ASSUME WorkInv, NEW p \in Procs, Works(p)
    PROVE  /\ \A q \in Procs \ {p} : op'[q] = op[q] /\ pending'[q] = pending[q]
           /\ db' \in Database /\ db' # NoDb /\ files' \in Directory /\ swap'.pc = "idle"
<1>1. PICK o \in Operation : OpStep(p, o)
    BY WorkSteps
<1>2. DiskStep(p)
    BY WorkSteps
<1>3. swap'.pc = "idle"
    BY SwapWork
<1> QED BY <1>1, <1>2, <1>3, Kinds DEF OpStep, DiskStep, Present, WorkInv, WorkTypeOK

LEMMA SecretsAfter ==
    ASSUME WorkInv, NEW p \in Procs, Works(p), Safe(db.secrets)',
           \A q \in Procs : pending'[q] # NoDb => pending'[q].secrets = db'.secrets,
           \A q \in Procs : Reencrypting(op'[q], db'.secrets, keyring'.active, latest')
    PROVE  SecretInv'
<1>1. db' # NoDb /\ swap'.pc = "idle"
    BY OneMoves
<1> QED BY <1>1 DEF SecretInv, Moving

(* After a commit of the only connection that writes nothing is pending.   *)
LEMMA AloneCommits ==
    ASSUME WorkInv, NEW p \in Procs, NEW d, Commit(p, d), CanWrite(p)
    PROVE  db' = d /\ \A q \in Procs : pending'[q] = NoDb
BY DEF Commit, CanWrite, WorkInv, WorkTypeOK

LEMMA OpenSecrets ==
    ASSUME WorkInv, SecretInv, NEW p \in Procs, p \in up \/ Engaged(p)
    PROVE  /\ Safe(db.secrets) /\ View(p).secrets = db.secrets /\ db \in Database
           /\ db.secrets \in [Slots -> Secret] /\ View(p) \in Database
           /\ keyring.active \in keyring.keys /\ swap.pc = "idle"
<1>1. Present /\ swap.pc = "idle" /\ View(p) \in Database
    BY Open, NoSwap
<1>2. db # NoDb /\ db \in Database
    BY <1>1, Kinds DEF Present
<1> QED BY <1>1, <1>2 DEF SecretInv, Moving, View, Database, WorkInv, WorkTypeOK

LEMMA PlainKeeps ==
    ASSUME WorkInv, SecretInv, NEW p \in Procs, Works(p), Plain(p)
    PROVE  SecretInv'
<1>1. /\ p \in up \/ Engaged(p)
      /\ UNCHANGED <<latest, keyring>> /\ op'[p].pc \notin {"tokens", "urls"}
    BY PlainIsOpen DEF secretVars
<1>2. Safe(db.secrets)
    BY <1>1, OpenSecrets
<1>3. db'.secrets = db.secrets /\ (pending'[p] # NoDb => pending'[p].secrets = db.secrets)
    BY PlainSecrets DEF SecretInv
<1>4. \A q \in Procs : pending'[q] # NoDb => pending'[q].secrets = db'.secrets
    BY <1>3, OneMoves DEF SecretInv
<1>5. \A q \in Procs : Reencrypting(op'[q], db'.secrets, keyring'.active, latest')
    <2>1. Reencrypting(op'[p], db'.secrets, keyring'.active, latest')
        BY <1>1 DEF Reencrypting
    <2> QED BY <1>1, <1>3, <2>1, OneMoves DEF SecretInv
<1>6. Safe(db.secrets)'
    BY <1>1, <1>2, <1>3 DEF Safe
<1> QED BY <1>4, <1>5, <1>6, SecretsAfter

(* A row that is gone holds no secret.                                     *)
LEMMA NoRow ==
    ASSUME NEW secret \in Secret, ~secret.row
    PROVE  secret.key = 0 /\ secret.val = 0
<1>1. secret = NoSecret
    BY DEF Secret
<1> QED BY <1>1 DEF NoSecret

LEMMA TokensKeep ==
    ASSUME WorkInv, SecretInv, NEW p \in Procs, Works(p), ReencryptTokens(p)
    PROVE  SecretInv'
<1> DEFINE secret == op[p].snap.secrets["token"]
           active == keyring.active
<1>1. /\ op[p].pc = "tokens" /\ Reencrypt(p, "token") /\ UNCHANGED <<files, up, latest, keyring>>
      /\ To(p, Idle) \/ To(p, [op[p] EXCEPT !.pc = "urls", !.snap = db])
    BY DEF ReencryptTokens, secretVars
<1>2. Engaged(p) /\ op[p].snap \in Database /\ op[p] \in Operation
    BY <1>1, Standing
<1>3. /\ Safe(db.secrets) /\ View(p).secrets = db.secrets /\ db.secrets \in [Slots -> Secret]
      /\ active \in keyring.keys /\ "token" \in Slots
    BY <1>2, OpenSecrets DEF Slots
<1>4. Reencrypting(op[p], db.secrets, active, latest)
    BY DEF SecretInv
<1>5. /\ \A s \in Slots \ {"token"} : db'.secrets[s] = db.secrets[s]
      /\ db'.secrets["token"].key \in {0, active}
      /\ db'.secrets["token"].val = latest["token"]
      /\ db'.secrets["token"].row = db.secrets["token"].row
    <2>1. CASE NeedsReencryption(secret) /\ db.secrets["token"].row
        <3> DEFINE new == [secret EXCEPT !.key = active]
        <3>1. /\ new \in Secret /\ db'.secrets = [db.secrets EXCEPT !["token"] = new]
              /\ secret.row
            BY <1>1, <1>2, <1>3, <2>1, ReencryptDisk
        <3>2. secret \in Secret
            BY <1>2, <1>3 DEF Database
        <3>3. new.key = active /\ new.val = secret.val /\ new.row = secret.row
            BY <3>2 DEF Secret, NoSecret
        <3>4. secret.val = latest["token"]
            BY <1>1, <1>4, <2>1 DEF Reencrypting, NeedsReencryption
        <3> HIDE DEF new
        <3>5. /\ db'.secrets["token"] = new
              /\ \A s \in Slots \ {"token"} : db'.secrets[s] = db.secrets[s]
            BY <1>3, <3>1
        <3> QED BY <2>1, <3>1, <3>3, <3>4, <3>5
    <2>2. CASE NeedsReencryption(secret) /\ ~db.secrets["token"].row
        <3>1. db'.secrets = db.secrets
            BY <1>1, <1>2, <1>3, <2>2, ReencryptDisk
        <3>2. db.secrets["token"].key = 0 /\ db.secrets["token"].val = latest["token"]
            BY <1>3, <2>2, NoRow DEF Safe, Unlost
        <3> QED BY <3>1, <3>2
    <2>3. CASE ~NeedsReencryption(secret)
        <3>1. db'.secrets = db.secrets
            BY <1>1, <1>2, <1>3, <2>3, ReencryptDisk
        <3>2. db.secrets["token"].key \in {0, active} /\ db.secrets["token"].val = latest["token"]
            BY <1>1, <1>3, <1>4, <2>3 DEF Safe, Unlost, Reencrypting, NeedsReencryption
        <3> QED BY <3>1, <3>2
    <2> QED BY <2>1, <2>2, <2>3
<1>6. Safe(db.secrets)'
    BY <1>1, <1>3, <1>5 DEF Safe, Unlost, Fresh
<1>7. \A q \in Procs : pending'[q] # NoDb => pending'[q].secrets = db'.secrets
    <2>1. CASE NeedsReencryption(secret)
        <3>1. \E d : Commit(p, d) /\ CanWrite(p)
            BY <1>1, <2>1 DEF Reencrypt
        <3> QED BY <3>1, AloneCommits
    <2>2. CASE ~NeedsReencryption(secret)
        BY <1>1, <2>2 DEF Reencrypt, SecretInv
    <2> QED BY <2>1, <2>2
<1>8. \A q \in Procs : Reencrypting(op'[q], db'.secrets, keyring'.active, latest')
    <2>1. ASSUME NEW q \in Procs, q # p
          PROVE  Reencrypting(op'[q], db'.secrets, keyring'.active, latest')
        <3>1. Reencrypting(op[q], db.secrets, active, latest) /\ op'[q] = op[q]
            BY <2>1, OneMoves DEF SecretInv
        <3> QED BY <1>1, <1>5, <3>1 DEF Reencrypting, Slots
    <2>2. Reencrypting(op'[p], db'.secrets, keyring'.active, latest')
        <3>1. op'[p] = Idle \/ op'[p] = [op[p] EXCEPT !.pc = "urls", !.snap = db]
            BY <1>1 DEF To, WorkInv, WorkTypeOK
        <3>2. CASE op'[p] = Idle
            BY <3>2, Idles DEF Reencrypting
        <3>3. CASE op'[p] = [op[p] EXCEPT !.pc = "urls", !.snap = db]
            <4>1. op'[p].pc = "urls" /\ op'[p].snap = db
                BY <1>2, <3>3 DEF Operation
            <4> QED BY <1>1, <1>5, <4>1 DEF Reencrypting, Slots
        <3> QED BY <3>1, <3>2, <3>3
    <2> QED BY <2>1, <2>2
<1> QED BY <1>6, <1>7, <1>8, SecretsAfter

LEMMA UrlsKeep ==
    ASSUME WorkInv, SecretInv, NEW p \in Procs, Works(p), ReencryptUrls(p)
    PROVE  SecretInv'
<1> DEFINE secret == op[p].snap.secrets["url"]
           active == keyring.active
<1>1. /\ op[p].pc = "urls" /\ Reencrypt(p, "url") /\ UNCHANGED <<files, up, latest>>
      /\ keyring' = [keyring EXCEPT !.settled = TRUE]
      /\ To(p, [op[p] EXCEPT !.pc = "seed", !.snap = NoDb])
    BY DEF ReencryptUrls
<1>2. Engaged(p) /\ op[p].snap \in Database /\ op[p] \in Operation /\ op[p].do = "start"
    BY <1>1, Standing
<1>3. /\ Safe(db.secrets) /\ View(p).secrets = db.secrets /\ db.secrets \in [Slots -> Secret]
      /\ active \in keyring.keys /\ "url" \in Slots
    BY <1>2, OpenSecrets DEF Slots
<1>4. secret = db.secrets["url"] /\ db.secrets["token"].key \in {0, active}
    BY <1>1 DEF SecretInv, Reencrypting
<1>5. /\ \A s \in Slots \ {"url"} : db'.secrets[s] = db.secrets[s]
      /\ db'.secrets["url"].key \in {0, active}
      /\ db'.secrets["url"].val = latest["url"]
    <2>1. CASE NeedsReencryption(secret)
        <3> DEFINE new == [secret EXCEPT !.key = active]
        <3>1. secret \in Secret /\ secret.key # 0
            BY <1>2, <1>3, <2>1 DEF Database, NeedsReencryption
        <3>2. db.secrets["url"].row
            BY <1>3, <1>4, <3>1, NoRow
        <3>3. new \in Secret /\ db'.secrets = [db.secrets EXCEPT !["url"] = new]
            BY <1>1, <1>2, <1>3, <2>1, <3>2, ReencryptDisk
        <3>4. new.key = active /\ new.val = secret.val
            BY <3>1 DEF Secret, NoSecret
        <3>5. secret.val = latest["url"]
            BY <1>3, <1>4 DEF Safe, Unlost
        <3> HIDE DEF new
        <3> QED BY <1>3, <3>3, <3>4, <3>5
    <2>2. CASE ~NeedsReencryption(secret)
        <3>1. db'.secrets = db.secrets
            BY <1>1, <1>2, <1>3, <2>2, ReencryptDisk
        <3> QED BY <1>3, <1>4, <2>2, <3>1 DEF Safe, Unlost, NeedsReencryption
    <2> QED BY <2>1, <2>2
<1>6. keyring'.active = active /\ keyring'.keys = keyring.keys
    BY <1>1 DEF WorkInv, WorkTypeOK
<1>7. Safe(db.secrets)'
    <2>1. \A s \in Slots : s = "url" \/ s = "token"
        BY DEF Slots
    <2>2. Fresh(db'.secrets, active)
        BY <1>4, <1>5, <2>1 DEF Fresh, Slots
    <2>3. Unlost(db'.secrets, keyring.keys, latest)
        BY <1>3, <1>5 DEF Safe, Unlost
    <2> QED BY <1>1, <1>6, <2>2, <2>3 DEF Safe
<1>8. \A q \in Procs : pending'[q] # NoDb => pending'[q].secrets = db'.secrets
    <2>1. CASE NeedsReencryption(secret)
        <3>1. \E d : Commit(p, d) /\ CanWrite(p)
            BY <1>1, <2>1 DEF Reencrypt
        <3> QED BY <3>1, AloneCommits
    <2>2. CASE ~NeedsReencryption(secret)
        BY <1>1, <2>2 DEF Reencrypt, SecretInv
    <2> QED BY <2>1, <2>2
<1>9. \A q \in Procs : Reencrypting(op'[q], db'.secrets, keyring'.active, latest')
    <2>1. ASSUME NEW q \in Procs, q # p
          PROVE  Reencrypting(op'[q], db'.secrets, keyring'.active, latest')
        <3>1. Reencrypting(op[q], db.secrets, active, latest) /\ op'[q] = op[q]
            BY <2>1, OneMoves DEF SecretInv
        <3>2. op[q].pc # "urls"
            <4>1. SUFFICES ASSUME op[q].pc = "urls" PROVE FALSE
                OBVIOUS
            <4>2. op[q].do = "start"
                BY <4>1, Standing
            <4>3. Locked(p) /\ Locked(q)
                BY <1>2, <4>2 DEF Locked
            <4> QED BY <2>1, <4>3 DEF WorkInv, LockInv
        <3> QED BY <1>1, <1>5, <1>6, <3>1, <3>2 DEF Reencrypting, Slots
    <2>2. op'[p].pc = "seed"
        BY <1>1, <1>2 DEF To, WorkInv, WorkTypeOK, Operation
    <2> QED BY <2>1, <2>2 DEF Reencrypting
<1> QED BY <1>7, <1>8, <1>9, SecretsAfter

LEMMA StartKeeps ==
    ASSUME WorkInv, SecretInv, NEW p \in Procs, Works(p), Start(p)
    PROVE  SecretInv'
<1> DEFINE d == IF db = NoDb THEN EmptyDb ELSE db
           o == [Idle EXCEPT !.do = "start", !.pc = "tokens", !.snap = d]
<1>1. /\ db' = d /\ op' = [op EXCEPT ![p] = o] /\ UNCHANGED <<pending, latest, keyring>>
      /\ swap.pc \notin Moving
    BY DEF Start, To, secretVars, Moving
<1>2. d \in Database
    BY EmptyTypes DEF WorkInv, WorkTypeOK
<1>3. \A s \in Slots : EmptyDb.secrets[s] = NoSecret
    BY DEF EmptyDb
<1>4. Safe(d.secrets)
    <2>1. CASE db = NoDb
        BY <1>1, <1>3, <2>1 DEF SecretInv, Safe, Unlost, Fresh, NoSecret
    <2>2. CASE db # NoDb
        BY <1>1, <2>2 DEF SecretInv
    <2> QED BY <2>1, <2>2
<1>5. Safe(db.secrets)'
    BY <1>1, <1>4 DEF Safe
<1>6. o.pc = "tokens" /\ o.snap = d
    BY <1>2, Idles DEF Operation
<1>7. op'[p] = o
    BY <1>1 DEF WorkInv, WorkTypeOK
<1> HIDE DEF o
<1>8. Reencrypting(op'[p], db'.secrets, keyring'.active, latest')
    BY <1>1, <1>4, <1>6, <1>7 DEF Reencrypting, Safe, Unlost, Slots
<1>9. ASSUME NEW q \in Procs, q # p
      PROVE  /\ Reencrypting(op'[q], db'.secrets, keyring'.active, latest')
             /\ pending'[q] # NoDb => pending'[q].secrets = db'.secrets
    <2>1. op'[q] = op[q] /\ op[q] \in Operation /\ Placed(op[q])
        BY <1>9, OneMoves DEF WorkInv, WorkTypeOK, LockInv
    <2>2. CASE db = NoDb
        <3>1. pending[q] = NoDb /\ ~Engaged(q)
            BY <2>2, Kinds DEF WorkInv, LockInv, Present
        <3>2. op[q].pc = "idle"
            BY <2>1, <3>1, IsIdle, Idles DEF Engaged
        <3> QED BY <1>1, <2>1, <3>1, <3>2 DEF Reencrypting
    <2>3. CASE db # NoDb
        BY <1>1, <2>1, <2>3 DEF SecretInv
    <2> QED BY <2>2, <2>3
<1>10. pending'[p] = NoDb
    BY <1>1 DEF WorkInv, LockInv, Start
<1> QED BY <1>5, <1>8, <1>9, <1>10, SecretsAfter

LEMMA ResetKeeps ==
    ASSUME WorkInv, SecretInv, NEW p \in Procs, Works(p), BeginReset(p)
    PROVE  SecretInv'
<1>1. /\ Commit(p, EmptyDb) /\ CanWrite(p) /\ latest' = [s \in Slots |-> 0] /\ UNCHANGED keyring
      /\ To(p, [Idle EXCEPT !.do = "reset", !.pc = "rmtree"]) /\ \A q \in Procs : ~Locked(q)
    BY DEF BeginReset, MayBegin, Free
<1>2. db' = EmptyDb /\ \A q \in Procs : pending'[q] = NoDb
    BY <1>1, AloneCommits
<1>3. \A s \in Slots : db'.secrets[s] = NoSecret
    BY <1>2 DEF EmptyDb
<1>4. Safe(db.secrets)'
    BY <1>1, <1>3 DEF Safe, Unlost, Fresh, NoSecret
<1>5. ASSUME NEW q \in Procs PROVE Reencrypting(op'[q], db'.secrets, keyring'.active, latest')
    <2>1. CASE q = p
        <3>1. op'[p].pc = "rmtree"
            BY <1>1, Idles DEF To, WorkInv, WorkTypeOK, Operation
        <3> QED BY <2>1, <3>1 DEF Reencrypting
    <2>2. CASE q # p
        <3>1. op'[q] = op[q]
            BY <2>2, OneMoves
        <3>2. op[q].pc # "urls"
            BY <1>1, Standing DEF Locked
        <3> QED BY <1>3, <3>1, <3>2 DEF Reencrypting, NoSecret, Slots
    <2> QED BY <2>1, <2>2
<1> QED BY <1>2, <1>4, <1>5, SecretsAfter

(* A secret is saved, or erased: nobody is about to write another.         *)
LEMMA SavedKeeps ==
    ASSUME WorkInv, SecretInv, Guarded, NEW p \in Procs, Works(p), NEW s \in Slots,
           SaveSecret(p, s) \/ EraseSecret(p, s)
    PROVE  SecretInv'
<1>1. /\ p \in up /\ CanWrite(p) /\ UNCHANGED <<op, keyring>>
      /\ s = "url" => \A q \in Procs : ~Locked(q)
      /\ s = "token" => \A q \in Procs : ~Stale(q)
    BY DEF SaveSecret, EraseSecret, MayWriteSecret, Guarded, WorkDoes
<1>2. /\ Safe(db.secrets) /\ View(p).secrets = db.secrets /\ db.secrets \in [Slots -> Secret]
      /\ keyring.active \in keyring.keys /\ View(p) \in Database
    BY <1>1, OpenSecrets
<1>3. PICK new \in [row: BOOLEAN, key: {0, keyring.active}, val: 0..2] :
          /\ new \in Secret /\ Commit(p, [View(p) EXCEPT !.secrets[s] = new])
          /\ latest' = [latest EXCEPT ![s] = new.val]
    <2>1. CASE SaveSecret(p, s)
        <3> DEFINE val == IF latest[s] = 1 THEN 2 ELSE 1
                   new == [row |-> TRUE, key |-> keyring.active, val |-> val]
        <3>1. new \in [row: BOOLEAN, key: {0, keyring.active}, val: 0..2] /\ new.val = val
            OBVIOUS
        <3>2. new \in Secret
            BY DEF Secret, WorkInv, WorkTypeOK
        <3>3. Commit(p, [View(p) EXCEPT !.secrets[s] = new])
              /\ latest' = [latest EXCEPT ![s] = val]
            BY <2>1 DEF SaveSecret
        <3> HIDE DEF new
        <3> QED BY <3>1, <3>2, <3>3
    <2>2. CASE EraseSecret(p, s)
        <3> DEFINE new == [NoSecret EXCEPT !.row = s = "token"]
        <3>1. new = [row |-> s = "token", key |-> 0, val |-> 0]
            BY DEF NoSecret
        <3>2. /\ new \in [row: BOOLEAN, key: {0, keyring.active}, val: 0..2] /\ new.val = 0
              /\ new \in Secret
            <4>1. CASE s = "token"
                <5>1. new = [row |-> TRUE, key |-> 0, val |-> 0]
                    BY <3>1, <4>1
                <5> HIDE DEF new
                <5> QED BY <5>1 DEF Secret
            <4>2. CASE s # "token"
                <5>1. new = NoSecret
                    BY <3>1, <4>2 DEF NoSecret
                <5> HIDE DEF new
                <5> QED BY <5>1 DEF Secret, NoSecret
            <4> QED BY <4>1, <4>2
        <3>4. Commit(p, [View(p) EXCEPT !.secrets[s] = new])
              /\ latest' = [latest EXCEPT ![s] = 0]
            BY <2>2 DEF EraseSecret
        <3> HIDE DEF new
        <3> QED BY <3>2, <3>4
    <2> QED BY <2>1, <2>2
<1> DEFINE d == [View(p) EXCEPT !.secrets[s] = new]
<1>4. d.secrets = [db.secrets EXCEPT ![s] = new]
    BY <1>2, <1>3, SecretWritten
<1>5. db' = d /\ \A q \in Procs : pending'[q] = NoDb
    BY <1>1, <1>3, AloneCommits
<1> HIDE DEF d
<1>6. db'.secrets[s] = new /\ \A t \in Slots \ {s} : db'.secrets[t] = db.secrets[t]
    BY <1>2, <1>4, <1>5
<1>7. latest'[s] = new.val /\ \A t \in Slots \ {s} : latest'[t] = latest[t]
    BY <1>3 DEF WorkInv, WorkTypeOK
<1>8. Safe(db.secrets)'
    BY <1>1, <1>2, <1>3, <1>6, <1>7 DEF Safe, Unlost, Fresh
<1>9. ASSUME NEW q \in Procs PROVE Reencrypting(op'[q], db'.secrets, keyring'.active, latest')
    <2>1. Reencrypting(op[q], db.secrets, keyring.active, latest)
        BY DEF SecretInv
    <2>2. CASE s = "token"
        <3>1. op[q].pc = "tokens" => op[q].snap.secrets["token"].key \in {0, keyring.active}
            BY <1>1, <2>2 DEF Stale, NeedsReencryption
        <3>2. db'.secrets["token"].key \in {0, keyring.active}
              /\ db'.secrets["url"] = db.secrets["url"]
            BY <1>3, <1>6, <2>2 DEF Slots
        <3> QED BY <1>1, <2>1, <3>1, <3>2 DEF Reencrypting
    <2>3. CASE s = "url"
        <3>1. op[q].pc # "urls"
            BY <1>1, <2>3, Standing DEF Locked
        <3>2. db'.secrets["token"] = db.secrets["token"] /\ latest'["token"] = latest["token"]
            BY <1>6, <1>7, <2>3 DEF Slots
        <3> QED BY <1>1, <2>1, <3>1, <3>2 DEF Reencrypting
    <2> QED BY <2>2, <2>3 DEF Slots
<1> QED BY <1>5, <1>8, <1>9, SecretsAfter

LEMMA RotateKeeps ==
    ASSUME WorkInv, SecretInv, Guarded, NEW p \in Procs, Works(p), NEW key \in Keys,
           RotateKey(p, key)
    PROVE  SecretInv'
<1> DEFINE o == [Idle EXCEPT !.do = "rotate", !.pc = "tokens", !.snap = View(p)]
<1>1. /\ p \in up /\ up = {p} /\ \A q \in Procs : op[q] = Idle
      /\ keyring' = [active |-> key, keys |-> keyring.keys \cup {key}, settled |-> FALSE]
      /\ op' = [op EXCEPT ![p] = o] /\ UNCHANGED <<db, pending, latest>>
    BY DEF RotateKey, To, Guarded, WorkDoes, WithKey, diskVars
<1>2. /\ Safe(db.secrets) /\ View(p).secrets = db.secrets /\ View(p) \in Database
    BY <1>1, OpenSecrets
<1>3. Safe(db.secrets)'
    BY <1>1, <1>2 DEF Safe, Unlost
<1>4. o.pc = "tokens" /\ o.snap.secrets = db.secrets
    BY <1>2, Idles DEF Operation
<1>5. op'[p] = o
    BY <1>1 DEF WorkInv, WorkTypeOK
<1> HIDE DEF o
<1>6. ASSUME NEW q \in Procs PROVE Reencrypting(op'[q], db'.secrets, keyring'.active, latest')
    <2>1. CASE q = p
        BY <1>1, <1>2, <1>4, <1>5, <2>1 DEF Reencrypting, Safe, Unlost, Slots
    <2>2. CASE q # p
        BY <1>1, <2>2, OneMoves, Idles DEF Reencrypting
    <2> QED BY <2>1, <2>2
<1>7. \A q \in Procs : pending'[q] # NoDb => pending'[q].secrets = db'.secrets
    BY <1>1 DEF SecretInv
<1> QED BY <1>3, <1>6, <1>7, SecretsAfter

(* A restore begins with the keys of what it brings, and brings it whole.  *)
LEMMA RestoreKeeps ==
    ASSUME WorkInv, SecretInv, Guarded, NEW p \in Procs, NEW b \in bundles, BeginRestore(p, b)
    PROVE  SecretInv'
<1>1. /\ swap'.pc = "db_out" /\ swap'.new = b /\ swap'.old = [db |-> db, files |-> files]
      /\ \A q \in Procs : pending'[q] = NoDb
    BY RestoreBegins
<1>2. /\ UNCHANGED <<db, op, latest, keyring>> /\ p \in up
      /\ \A s \in Slots : b.db.secrets[s].key \in {0} \cup keyring.keys
    BY DEF BeginRestore, MayBegin, KeysKept, Readable, Guarded, WorkDoes, diskVars, secretVars
<1>3. Safe(db.secrets)
    BY <1>2, OpenSecrets
<1>4. swap'.old.db = db
    BY <1>1
<1> QED BY <1>1, <1>2, <1>3, <1>4 DEF SecretInv, Moving, Safe

LEMMA SwapKeeps ==
    ASSUME WorkInv, SecretInv, Guarded, SwapStep \/ RestoreFails
    PROVE  SecretInv'
<1>1. /\ UNCHANGED <<op, pending>> /\ swap.pc \in Moving
      /\ \A q \in Procs : ~Engaged(q) /\ pending[q] = NoDb
      /\ swap'.new = swap.new /\ swap'.old = swap.old /\ swap' \in Restore
      /\ swap.old \in [db: Database, files: Directory] /\ swap.new \in Bundle
    BY SwapSteps
<1>2. /\ Safe(swap.old.db.secrets)
      /\ \A s \in Slots : swap.new.db.secrets[s].key \in {0} \cup keyring.keys
    BY <1>1 DEF SecretInv
<1>3. \A q \in Procs : op[q].pc = "idle"
    BY <1>1, IsIdle, Idles DEF WorkInv, WorkTypeOK, LockInv, Engaged
<1>4. /\ \A q \in Procs : pending'[q] = NoDb
      /\ \A q \in Procs : Reencrypting(op'[q], db'.secrets, keyring'.active, latest')
    BY <1>1, <1>3 DEF Reencrypting
<1>5. CASE SwapStep /\ ~DropOldFiles
    <2>1. swap'.pc \in Moving /\ UNCHANGED <<latest, keyring>>
        BY <1>5 DEF SwapStep, MoveDatabaseOut, MoveFilesOut, MoveDatabaseIn, MoveFilesIn,
               DropOldDatabase, SwapTo, secretVars, WorkInv, WorkTypeOK, Restore, Moving
    <2> QED BY <1>1, <1>2, <1>4, <2>1 DEF SecretInv, Safe
<1>6. CASE DropOldFiles
    <2>1. /\ swap'.pc = "done" /\ db' = db /\ db = swap.new.db
          /\ latest' = [s \in Slots |-> db.secrets[s].val]
          /\ keyring' = [keyring EXCEPT !.settled = FALSE]
        BY <1>6 DEF DropOldFiles, diskVars, WorkInv, WorkTypeOK, SwapInv, Restore, Moving
    <2>2. keyring'.keys = keyring.keys /\ ~keyring'.settled
        BY <2>1 DEF WorkInv, WorkTypeOK
    <2>3. Safe(db.secrets)'
        BY <1>2, <2>1, <2>2 DEF Safe, Unlost
    <2>4. db # NoDb
        BY <1>1, <2>1, Kinds DEF Bundle
    <2> QED BY <1>4, <2>1, <2>3, <2>4 DEF SecretInv, Moving
<1>7. CASE RestoreFails
    <2>1. db' = swap.old.db /\ swap'.pc = "failed" /\ UNCHANGED <<latest, keyring>>
        BY <1>7, RollsBack
           DEF RestoreFails, SwapTo, secretVars, Guarded, WorkInv, WorkTypeOK, Restore
    <2>2. db' # NoDb
        BY <1>1, <2>1, Kinds
    <2>3. Safe(db.secrets)'
        BY <1>2, <2>1 DEF Safe
    <2> QED BY <1>4, <2>1, <2>2, <2>3 DEF SecretInv, Moving
<1> QED BY <1>5, <1>6, <1>7

(* Keys are retired when every secret has the active one, and no restore   *)
(* is under way.                                                           *)
LEMMA RetireKeeps ==
    ASSUME WorkInv, SecretInv, Guarded, RetireKeys
    PROVE  SecretInv'
<1>1. /\ UNCHANGED <<db, op, pending, swap, latest>> /\ swap.pc = "idle" /\ keyring.settled
      /\ keyring' = [keyring EXCEPT !.keys = {keyring.active}]
    BY DEF RetireKeys, Retired, Guarded, WorkDoes, diskVars
<1>2. keyring'.keys = {keyring.active} /\ keyring'.active = keyring.active
    BY <1>1 DEF WorkInv, WorkTypeOK
<1>3. ASSUME db # NoDb PROVE Safe(db.secrets)'
    <2>1. Safe(db.secrets) /\ Fresh(db.secrets, keyring.active)
        BY <1>1, <1>3 DEF SecretInv, Moving, Safe
    <2> QED BY <1>1, <1>2, <2>1 DEF Safe, Unlost, Fresh
<1> QED BY <1>1, <1>2, <1>3 DEF SecretInv, Moving

LEMMA SecretsKept ==
    ASSUME WorkInv, SecretInv, Guarded, [WorkNext]_workVars
    PROVE  SecretInv'
<1>1. CASE \E p \in Procs : Works(p)
    <2>1. PICK p \in Procs : Works(p)
        BY <1>1
    <2>2. ASSUME NEW s \in Slots, SaveSecret(p, s) \/ EraseSecret(p, s) PROVE SecretInv'
        BY <2>1, <2>2, SavedKeeps
    <2>3. ASSUME NEW key \in Keys, RotateKey(p, key) PROVE SecretInv'
        BY <2>1, <2>3, RotateKeeps
    <2> QED BY <2>1, <2>2, <2>3, PlainOnes, PlainKeeps, TokensKeep, UrlsKeep, StartKeeps, ResetKeeps
<1>2. CASE \E p \in Procs : Restores(p)
    BY <1>2, RestoreKeeps DEF Restores
<1>3. CASE SwapStep \/ RestoreFails
    BY <1>3, SwapKeeps
<1>4. CASE RetireKeys
    BY <1>4, RetireKeeps
<1>5. CASE Tick \/ \E b \in bundles, a \in Articles : Damage(b, a)
    BY <1>5 DEF Tick, Damage, SecretInv, Safe, diskVars, secretVars
<1>6. CASE UNCHANGED workVars
    BY <1>6 DEF workVars, SecretInv, Safe, diskVars, secretVars
<1> QED BY <1>1, <1>2, <1>3, <1>4, <1>5, <1>6, NoCrash, Actors DEF Nobody, Guarded

LEMMA SecretsBegin ==
    ASSUME WorkInit
    PROVE  SecretInv
<1>1. /\ db = NoDb /\ latest = [s \in Slots |-> 0] /\ swap.pc = "idle"
      /\ pending = [p \in Procs |-> NoDb] /\ op = [p \in Procs |-> Idle]
    BY DEF WorkInit, NoRestore
<1> QED BY <1>1, Idles DEF SecretInv, Reencrypting, Moving

(* Every stored secret is the last one that was saved, or stays erased,    *)
(* and can be decrypted with a key that is still there, through rotations, *)
(* retirements, restarts and restores (crypto.py, sqlite.py                *)
(* reencrypt_connection_credentials, scripts/bloghub_credentials.py), when *)
(* none of the risks that Guarded names is taken.                          *)
THEOREM NoSecretIsLost == WorkSpec => [](Guarded => SecretsSurvive)
<1>1. ASSUME WorkInv, Guarded => SecretInv, [WorkNext]_workVars PROVE (Guarded => SecretInv)'
    <2>1. Guarded' = Guarded
        BY <1>1, ScopeStands DEF Guarded, Whole
    <2> QED BY <1>1, <2>1, SecretsKept
<1>2. WorkInit => (Guarded => SecretInv)
    BY SecretsBegin
<1>3. WorkInv /\ (Guarded => SecretInv) => (Guarded => SecretsSurvive)
    BY DEF SecretInv, SecretsSurvive, Safe, Unlost, Readable, Moving
<1> QED BY <1>1, <1>2, <1>3, WorkAlways, PTL DEF WorkSpec

-----------------------------------------------------------------------------
(* Rows and files.                                                         *)

(* Restores are whole, and no process is killed between the deletion of    *)
(* files and the commit that deletes their rows.                           *)
Uncrashed == Whole /\ "crash_delete" \notin workScope

Fit(d, f, excused) == Complete(d, f) /\ Agree(d, f, excused)

(* The articles whose file is ahead of the revision: a save was cut off,   *)
(* or is between the file and the row.                                     *)
Holds(o, a) == o.do \in {"create", "save"} /\ o.pc = "commit" /\ o.art = a
Loose == torn \cup {a \in Articles : \E p \in Procs : Holds(op[p], a)}

(* The committed rows may lack files that a deletion has removed already,  *)
(* but a file that is there is the one of the latest revision.             *)
Last(d, f, excused) ==
    \A a \in Articles : d.rows[a] \notin {"none", "new"} /\ a \notin excused
                          => f.body[a] \in {"none", d.rows[a]}

(* What the operation under way has done so far.                           *)
Working(p) ==
    LET o == op[p] IN
    /\ o.do = "create" => db.rows[o.art] = "none"
    /\ o.do \in {"create", "save"} /\ o.pc = "commit" => files.body[o.art] = o.text
    /\ o.do = "asset" /\ o.pc = "commit" => o.art \in files.assets
    /\ o.do = "delete" => /\ pending[p] # NoDb /\ pending[p].rows[o.art] = "none"
                          /\ o.art \notin pending[p].assets
    /\ o.do = "reset" => \A q \in Procs : pending[q] = NoDb
    /\ o.do = "reset" /\ o.pc = "rmtree" =>
          db.assets = {} /\ \A a \in Articles : db.rows[a] = "none"
    /\ o.do = "backup" /\ o.pc = "copy" => Last(o.snap, files, torn)
    /\ o.do = "backup" /\ o.pc = "publish" => Last(o.snap, o.copy, torn)

(* A transaction only deletes rows.                                        *)
Leftover(d, e) == \A a \in Articles : d.rows[a] \in {"none", e.rows[a]}

FitInv ==
    /\ \A p \in Procs : pending[p] # NoDb =>
          Fit(pending[p], files, Loose) /\ Leftover(pending[p], db)
    /\ (\A p \in Procs : pending[p] = NoDb) => Fit(db, files, Loose)
    /\ Last(db, files, Loose)
    /\ \A p \in Procs : Working(p)
FilesInv ==
    /\ BundlesAreWhole
    /\ swap.pc \in Moving => /\ Fit(swap.old.db, swap.old.files, torn)
                             /\ Fit(swap.new.db, swap.new.files, swap.new.torn)
    /\ swap.pc \notin Moving /\ db # NoDb => FitInv

LEMMA FitsLast ==
    ASSUME NEW d, NEW f, NEW excused, Fit(d, f, excused)
    PROVE  Last(d, f, excused)
BY DEF Fit, Agree, Last

LEMMA LastFits ==
    ASSUME NEW d, NEW f, NEW excused, Last(d, f, excused), Complete(d, f)
    PROVE  Fit(d, f, excused)
BY DEF Fit, Agree, Complete, Last

(* The database that the next write continues from.                        *)
Truth(d) ==
    /\ d \in Database /\ Leftover(d, db)
    /\ (\E q \in Procs : d = pending[q]) \/ (d = db /\ \A q \in Procs : pending[q] = NoDb)

LEMMA Writable ==
    ASSUME WorkInv, FitInv, NEW p \in Procs, p \in up \/ Engaged(p), CanWrite(p) \/ pending[p] # NoDb
    PROVE  Truth(View(p)) /\ Fit(View(p), files, Loose)
<1>1. View(p) \in Database /\ db \in Database
    BY Open DEF Present
<1>2. CASE pending[p] # NoDb
    BY <1>1, <1>2 DEF View, Truth, FitInv
<1>3. CASE pending[p] = NoDb
    <2>1. \A q \in Procs : pending[q] = NoDb
        BY <1>3 DEF CanWrite
    <2> QED BY <1>1, <1>3, <2>1 DEF View, Truth, FitInv, Leftover
<1> QED BY <1>2, <1>3

(* Only the operation that holds the lock has done anything.               *)
LEMMA Outside ==
    ASSUME NEW p \in Procs, op[p].do \in {"idle", "rotate", "start"}
    PROVE  Working(p) /\ \A a : ~Holds(op[p], a)
BY DEF Working, Holds

LEMMA OutsideAfter ==
    ASSUME NEW p \in Procs, op'[p].do \in {"idle", "rotate", "start"}
    PROVE  Working(p)' /\ \A a : ~Holds(op'[p], a)
BY DEF Working, Holds

LEMMA Alone ==
    ASSUME WorkInv, NEW p \in Procs, Works(p), Locked(p) \/ \A q \in Procs : ~Locked(q)
    PROVE  /\ \A q \in Procs \ {p} : Working(q)'
           /\ \A a \in Articles : a \in Loose <=> a \in torn \/ Holds(op[p], a)
           /\ \A a \in Articles : a \in Loose' <=> a \in torn' \/ Holds(op'[p], a)
<1>1. \A q \in Procs \ {p} : op'[q] = op[q] /\ op[q].do \in {"idle", "rotate"}
    <2>1. \A q \in Procs \ {p} : ~Locked(q)
        BY DEF WorkInv, LockInv
    <2> QED BY <2>1, OneMoves DEF Locked
<1>2. \A q \in Procs \ {p}, a \in Articles : ~Holds(op[q], a) /\ ~Holds(op'[q], a)
    BY <1>1, Outside
<1>3. \A q \in Procs \ {p} : Working(q)'
    BY <1>1, OutsideAfter
<1> QED BY <1>2, <1>3 DEF Loose

(* After a commit nothing is pending.                                      *)
LEMMA CommitsFit ==
    ASSUME WorkInv, NEW p \in Procs, NEW d \in Database, Commit(p, d),
           CanWrite(p) \/ pending[p] # NoDb, Fit(d, files', Loose'), \A q \in Procs : Working(q)'
    PROVE  FitInv'
<1>1. CanWrite(p)
    BY DEF CanWrite, WorkInv, LockInv
<1>2. db' = d /\ \A q \in Procs : pending'[q] = NoDb
    BY <1>1, AloneCommits
<1>3. Last(db', files', Loose')
    BY <1>2, FitsLast
<1> QED BY <1>2, <1>3 DEF FitInv

(* A step that commits nothing changes files within what the truth needs.  *)
LEMMA StaysFit ==
    ASSUME WorkInv, FitInv, Present, UNCHANGED <<db, pending>>,
           \A d \in Database : Truth(d) /\ Fit(d, files, Loose) => Fit(d, files', Loose'),
           Last(db, files', Loose'), \A q \in Procs : Working(q)'
    PROVE  FitInv'
<1>1. ASSUME NEW q \in Procs, pending'[q] # NoDb
      PROVE  Fit(pending'[q], files', Loose') /\ Leftover(pending'[q], db')
    <2>1. pending[q] \in Database /\ Fit(pending[q], files, Loose) /\ Leftover(pending[q], db)
        BY <1>1 DEF FitInv, WorkInv, WorkTypeOK
    <2>2. Truth(pending[q])
        BY <2>1 DEF Truth
    <2> QED BY <2>1, <2>2 DEF Leftover
<1>2. ASSUME \A q \in Procs : pending'[q] = NoDb PROVE Fit(db', files', Loose')
    <2>1. Truth(db) /\ db \in Database
        BY <1>2 DEF Truth, Present, Leftover
    <2> QED BY <1>2, <2>1 DEF FitInv
<1> QED BY <1>1, <1>2 DEF FitInv

(* A step that moves nothing on the disk, and ends or begins an operation. *)
LEMMA KeepsFit ==
    ASSUME WorkInv, FitInv, Present, UNCHANGED <<db, files, pending>>,
           \A a \in Articles : a \in Loose => a \in Loose', \A q \in Procs : Working(q)'
    PROVE  FitInv'
<1>1. \A d \in Database : Fit(d, files, Loose) => Fit(d, files', Loose')
    BY DEF Fit, Agree
<1>2. Last(db, files', Loose')
    BY DEF FitInv, Last
<1> QED BY <1>1, <1>2, StaysFit

(* The operation that stands at a step, and where the step takes it.       *)
LEMMA Moved ==
    ASSUME WorkInv, NEW p \in Procs, op[p].pc # "idle"
    PROVE  /\ op[p].art \in Articles /\ op[p].text \in Text /\ Present
           /\ op[p].text # "none" /\ View(p) \in Database /\ Engaged(p)
           /\ \A pc \in {"commit", "seed", "revise"} : Goto(p, pc) =>
                 /\ op'[p].do = op[p].do /\ op'[p].pc = pc
                 /\ op'[p].art = op[p].art /\ op'[p].text = op[p].text
           /\ To(p, Idle) => op'[p].do = "idle"
<1>1. op[p] \in Operation /\ Engaged(p) /\ Present
    BY Standing
<1>2. op \in [Procs -> Operation]
    BY DEF WorkInv, WorkTypeOK
<1>3. ASSUME NEW pc \in {"commit", "seed", "revise"}, Goto(p, pc)
      PROVE  /\ op'[p].do = op[p].do /\ op'[p].pc = pc
             /\ op'[p].art = op[p].art /\ op'[p].text = op[p].text
    BY <1>1, <1>2, <1>3 DEF Goto, To, Operation
<1>4. To(p, Idle) => op'[p].do = "idle"
    BY <1>2, Idles DEF To
<1> QED BY <1>1, <1>3, <1>4, Open, Texty DEF Operation

LEMMA WriteFits ==
    ASSUME WorkInv, FitInv, NEW p \in Procs, Works(p), Write(p)
    PROVE  FitInv'
<1> DEFINE a == op[p].art
           o == op[p]
<1>1. /\ o.pc = "write" /\ o.do \in {"create", "save", "asset"} /\ Locked(p)
      /\ a \in Articles /\ o.text \in Text /\ o.text # "none" /\ Present
      /\ op'[p].do = o.do /\ op'[p].pc = "commit" /\ op'[p].art = a /\ op'[p].text = o.text
      /\ UNCHANGED <<db, pending, torn>>
    BY Standing, Moved DEF Write, Locked
<1>2. /\ \A q \in Procs \ {p} : Working(q)'
      /\ \A b \in Articles : b \in Loose <=> b \in torn \/ Holds(o, b)
      /\ \A b \in Articles : b \in Loose' <=> b \in torn' \/ Holds(op'[p], b)
    BY <1>1, Alone
<1>3. Working(p) /\ Last(db, files, Loose)
    BY DEF FitInv
<1>4. CASE o.do = "asset"
    <2>1. files'.body = files.body /\ files'.assets = files.assets \cup {a}
        BY <1>1, <1>4, AssetStored DEF Write, Present
    <2>2. \A b \in Articles : b \in Loose => b \in Loose'
        BY <1>1, <1>2 DEF Holds
    <2>3. \A d \in Database : Fit(d, files, Loose) => Fit(d, files', Loose')
        BY <2>1, <2>2 DEF Fit, Complete, Agree
    <2>4. Last(db, files', Loose')
        BY <1>1, <1>3, <2>1, <2>2 DEF Last
    <2>5. Working(p)'
        BY <1>1, <1>4, <2>1 DEF Working
    <2> QED BY <1>1, <1>2, <2>3, <2>4, <2>5, StaysFit
<1>5. CASE o.do \in {"create", "save"}
    <2>1. files'.body = [files.body EXCEPT ![a] = o.text] /\ files'.assets = files.assets
          /\ files.body \in [Articles -> Text \cup {"none"}]
        BY <1>1, <1>5, BodyWritten DEF Write, WriteBody, Present, Directory
    <2>2. /\ files'.body[a] = o.text
          /\ \A b \in Articles \ {a} : files'.body[b] = files.body[b]
        BY <1>1, <2>1
    <2>3. /\ a \in Loose' /\ \A b \in Articles : b \in Loose => b \in Loose'
        BY <1>1, <1>2, <1>5 DEF Holds
    <2>4. \A d \in Database : Fit(d, files, Loose) => Fit(d, files', Loose')
        BY <1>1, <2>1, <2>2, <2>3 DEF Fit, Complete, Agree
    <2>5. Last(db, files', Loose')
        BY <1>1, <1>3, <2>2, <2>3 DEF Last
    <2>6. Working(p)'
        BY <1>1, <1>3, <1>5, <2>2 DEF Working
    <2> QED BY <1>1, <1>2, <2>4, <2>5, <2>6, StaysFit
<1> QED BY <1>1, <1>4, <1>5

LEMMA CommitWriteFits ==
    ASSUME WorkInv, FitInv, NEW p \in Procs, Works(p), CommitWrite(p)
    PROVE  FitInv'
<1> DEFINE a == op[p].art
           o == op[p]
           d == Written(View(p), o)
<1>1. /\ o.pc = "commit" /\ o.do \in {"create", "save", "asset"} /\ Locked(p)
      /\ a \in Articles /\ o.text \in Text /\ o.text # "none" /\ Present /\ View(p) \in Database
      /\ op'[p].do = "idle" /\ UNCHANGED files /\ CanWrite(p) /\ Commit(p, d) /\ Engaged(p)
      /\ torn' = IF o.do = "asset" THEN torn ELSE torn \ {a}
    BY Standing, Moved DEF CommitWrite, Locked
<1>2. /\ \A q \in Procs \ {p} : Working(q)'
      /\ \A b \in Articles : b \in Loose <=> b \in torn \/ Holds(o, b)
      /\ \A b \in Articles : b \in Loose' <=> b \in torn' \/ Holds(op'[p], b)
    BY <1>1, Alone
<1>3. Working(p) /\ Working(p)' /\ \A b : ~Holds(op'[p], b)
    BY <1>1, OutsideAfter DEF FitInv
<1>4. Fit(View(p), files, Loose)
    BY <1>1, Writable
<1>5. CASE o.do = "asset"
    <2>1. d \in Database /\ d.rows = View(p).rows /\ d.assets = View(p).assets \cup {a}
        BY <1>1, <1>5, AssetWritten DEF Written
    <2>2. a \in files.assets
        BY <1>1, <1>3, <1>5 DEF Working
    <2>3. \A b \in Articles : b \in Loose => b \in Loose'
        BY <1>1, <1>2, <1>5 DEF Holds
    <2> HIDE DEF d
    <2>4. Fit(d, files', Loose')
        BY <1>1, <1>4, <2>1, <2>2, <2>3 DEF Fit, Complete, Agree
    <2> QED BY <1>1, <1>2, <1>3, <2>1, <2>4, CommitsFit
<1>6. CASE o.do \in {"create", "save"}
    <2>1. /\ d \in Database /\ d.rows = [View(p).rows EXCEPT ![a] = o.text]
          /\ d.assets = View(p).assets /\ View(p).rows \in [Articles -> Text \cup {"none", "new"}]
        BY <1>1, <1>6, RowWritten DEF Written, Database
    <2>2. d.rows[a] = o.text /\ \A b \in Articles \ {a} : d.rows[b] = View(p).rows[b]
        BY <1>1, <2>1
    <2>3. files.body[a] = o.text
        BY <1>1, <1>3, <1>6 DEF Working
    <2>4. \A b \in Articles \ {a} : b \in Loose => b \in Loose'
        BY <1>1, <1>2, <1>6 DEF Holds
    <2> HIDE DEF d
    <2>5. Fit(d, files', Loose')
        BY <1>1, <1>4, <2>1, <2>2, <2>3, <2>4 DEF Fit, Complete, Agree
    <2> QED BY <1>1, <1>2, <1>3, <2>1, <2>5, CommitsFit
<1> QED BY <1>1, <1>5, <1>6

(* A save that is refused leaves its file ahead, and so does one that is   *)
(* cut off; a create that is refused leaves a file without a row.          *)
LEMMA RefusedFits ==
    ASSUME WorkInv, FitInv, NEW p \in Procs, Works(p), WriteRefused(p)
    PROVE  FitInv'
<1> DEFINE a == op[p].art
           o == op[p]
<1>1. /\ o.pc = "commit" /\ o.do \in {"create", "save", "asset", "delete"} /\ Locked(p)
      /\ a \in Articles /\ Present /\ op'[p].do = "idle" /\ UNCHANGED <<db, files, pending>>
      /\ torn' = torn \cup Cut(p) /\ ~CanWrite(p)
    BY Standing, Moved DEF WriteRefused, Locked, diskVars
<1>2. /\ \A q \in Procs \ {p} : Working(q)'
      /\ \A b \in Articles : b \in Loose <=> b \in torn \/ Holds(o, b)
      /\ \A b \in Articles : b \in Loose' <=> b \in torn' \/ Holds(op'[p], b)
    BY <1>1, Alone
<1>3. Working(p) /\ Working(p)' /\ \A b : ~Holds(op'[p], b)
    BY <1>1, OutsideAfter DEF FitInv
<1>4. \A q \in Procs : Working(q)'
    BY <1>2, <1>3
<1>5. \A b \in Articles \ {a} : b \in Loose => b \in Loose'
    BY <1>1, <1>2 DEF Holds
<1>6. o.do # "create" /\ a \in Loose => a \in Loose'
    BY <1>1, <1>2 DEF Holds, Cut
<1>7. o.do = "create" => db.rows[a] = "none"
    BY <1>3 DEF Working
<1>8. ASSUME NEW d \in Database, Truth(d), Fit(d, files, Loose)
      PROVE  Fit(d, files', Loose')
    <2>1. o.do = "create" => d.rows[a] = "none"
        BY <1>1, <1>7, <1>8 DEF Truth, Leftover
    <2> QED BY <1>1, <1>5, <1>6, <1>8, <2>1 DEF Fit, Complete, Agree
<1>9. Last(db, files', Loose')
    BY <1>1, <1>5, <1>6, <1>7 DEF FitInv, Last
<1> QED BY <1>1, <1>4, <1>8, <1>9, StaysFit

(* Files are removed only when the rows that are true have gone.           *)
LEMMA DeletedFiles ==
    ASSUME WorkInv, FitInv, NEW p \in Procs, op[p].do = "delete", NEW excused
    PROVE  /\ \A d \in Database : Truth(d) /\ Fit(d, files, excused)
                                    => Fit(d, Emptied(files, op[p].art), excused)
           /\ Last(db, files, excused) => Last(db, Emptied(files, op[p].art), excused)
<1> DEFINE a == op[p].art
           f == Emptied(files, a)
<1>1. files \in Directory /\ a \in Articles
    BY Idles, Open DEF Present, Engaged, WorkInv, WorkTypeOK, Operation
<1>2. /\ f.body = [files.body EXCEPT ![a] = "none"] /\ f.assets = files.assets \ {a}
      /\ files.body \in [Articles -> Text \cup {"none"}]
    BY <1>1, FilesEmptied DEF Directory
<1>3. f.body[a] = "none" /\ \A b \in Articles \ {a} : f.body[b] = files.body[b]
    BY <1>1, <1>2
<1>4. pending[p] # NoDb /\ pending[p].rows[a] = "none" /\ a \notin pending[p].assets
    BY DEF FitInv, Working
<1> HIDE DEF f
<1>5. ASSUME NEW d \in Database, Truth(d), Fit(d, files, excused) PROVE Fit(d, f, excused)
    <2>1. d = pending[p]
        BY <1>4, <1>5, Kinds DEF Truth, WorkInv, LockInv
    <2> QED BY <1>2, <1>3, <1>4, <1>5, <2>1 DEF Fit, Complete, Agree
<1>6. Last(db, files, excused) => Last(db, f, excused)
    BY <1>3 DEF Last
<1> QED BY <1>5, <1>6 DEF f

LEMMA ResetFiles ==
    ASSUME WorkInv, FitInv, NEW p \in Procs, op[p].do = "reset", op[p].pc = "rmtree", NEW excused
    PROVE  /\ \A d \in Database : Truth(d) => Fit(d, EmptyFiles, excused)
           /\ Last(db, EmptyFiles, excused)
<1>1. /\ \A q \in Procs : pending[q] = NoDb
      /\ db.assets = {} /\ \A a \in Articles : db.rows[a] = "none"
    BY DEF FitInv, Working
<1>2. ASSUME NEW d \in Database, Truth(d) PROVE d = db
    BY <1>1, <1>2, Kinds DEF Truth
<1>3. Last(db, EmptyFiles, excused) /\ Fit(db, EmptyFiles, excused)
    BY <1>1 DEF Last, Fit, Complete, Agree
<1> QED BY <1>2, <1>3

(* An operation that is cut off leaves what is true, and excuses a save.   *)
LEMMA CutsFit ==
    ASSUME WorkInv, FitInv, NEW p \in Procs, Works(p), Locked(p), op'[p].do = "idle",
           files' \in CutFiles(p), torn' = Torn(p, files'), UNCHANGED <<db, pending>>
    PROVE  FitInv'
<1> DEFINE a == op[p].art
           o == op[p]
<1>1. Present /\ a \in Articles /\ Placed(o) /\ o \in Operation /\ Engaged(p) /\ files \in Directory
    BY Open DEF Locked, Engaged, WorkInv, WorkTypeOK, LockInv, Operation, Present
<1>2. /\ \A q \in Procs \ {p} : Working(q)'
      /\ \A b \in Articles : b \in Loose <=> b \in torn \/ Holds(o, b)
      /\ \A b \in Articles : b \in Loose' <=> b \in torn' \/ Holds(op'[p], b)
    BY Alone
<1>3. Working(p) /\ Working(p)' /\ \A b : ~Holds(op'[p], b)
    BY OutsideAfter DEF FitInv
<1>4. \A q \in Procs : Working(q)'
    BY <1>2, <1>3
<1>5. torn \subseteq torn'
    BY DEF Torn
<1>6. \A b \in Articles \ {a} : b \in Loose => b \in Loose'
    BY <1>2, <1>5 DEF Holds
<1>7. o.do # "create" /\ a \in Loose => a \in Loose'
    BY <1>1, <1>2, <1>5 DEF Holds, Cut, Torn
<1>8. /\ o.do = "create" => db.rows[a] = "none"
      /\ \A d \in Database : o.do = "create" /\ Truth(d) => d.rows[a] = "none"
    BY <1>1, <1>3 DEF Working, Truth, Leftover
<1>9. Last(db, files, Loose)
    BY DEF FitInv
<1> DEFINE Goal == /\ \A d \in Database : Truth(d) /\ Fit(d, files, Loose) => Fit(d, files', Loose')
                   /\ Last(db, files', Loose')
<1>10. ASSUME files' = files PROVE Goal
    BY <1>1, <1>6, <1>7, <1>8, <1>9, <1>10 DEF Fit, Complete, Agree, Last
<1>11. ASSUME files'.body = files.body, files'.assets = files.assets \cup {a} PROVE Goal
    BY <1>1, <1>6, <1>7, <1>8, <1>9, <1>11 DEF Fit, Complete, Agree, Last
<1>12. ASSUME o.pc = "write", o.do \in {"create", "save"},
              files'.body = [files.body EXCEPT ![a] = "cut"], files'.assets = files.assets
       PROVE  Goal
    <2>1. /\ files'.body[a] = "cut" /\ \A b \in Articles \ {a} : files'.body[b] = files.body[b]
        BY <1>1, <1>12 DEF Directory
    <2>2. o.do = "create" \/ a \in torn' \/ files.body[a] = "cut"
        BY <1>12, <2>1 DEF Torn, Cut
    <2>3. CASE o.do = "create" \/ a \in torn'
        <3>1. o.do = "create" \/ a \in Loose'
            BY <1>1, <1>2, <2>3
        <3> QED BY <1>6, <1>8, <1>9, <1>12, <2>1, <3>1 DEF Fit, Complete, Agree, Last
    <2>4. CASE files.body[a] = "cut"
        <3>1. \A b \in Articles : files'.body[b] = files.body[b]
            BY <2>1, <2>4
        <3> QED BY <1>6, <1>7, <1>8, <1>9, <1>12, <3>1 DEF Fit, Complete, Agree, Last
    <2> QED BY <2>2, <2>3, <2>4
<1>13. ASSUME Doing(p, "delete", "rmtree"), files' = Emptied(files, a) PROVE Goal
    <2>1. \A b \in Articles : b \in Loose => b \in Loose'
        BY <1>6, <1>7, <1>13 DEF Doing
    <2>2. \A d \in Database : Fit(d, files, Loose) => Fit(d, files, Loose')
        BY <2>1 DEF Fit, Agree
    <2>3. Last(db, files, Loose')
        BY <1>9, <2>1 DEF Last
    <2> QED BY <1>13, <2>2, <2>3, DeletedFiles DEF Doing
<1>14. ASSUME Doing(p, "reset", "rmtree"), files' = EmptyFiles PROVE Goal
    BY <1>14, ResetFiles DEF Doing
<1>15. Goal
    BY <1>1, <1>10, <1>11, <1>12, <1>13, <1>14, Cuts
<1> QED BY <1>1, <1>4, <1>15, StaysFit

LEMMA RemoveFits ==
    ASSUME WorkInv, FitInv, NEW p \in Procs, Works(p), RemoveFiles(p)
    PROVE  FitInv'
<1> DEFINE a == op[p].art
           o == op[p]
<1>1. /\ o.pc = "rmtree" /\ o.do \in {"delete", "reset"} /\ Locked(p) /\ Present
      /\ op'[p].do = o.do /\ op'[p].pc # "rmtree" /\ op'[p].art = a
      /\ UNCHANGED <<db, pending, torn>>
    BY Standing, Moved DEF RemoveFiles, Locked
<1>2. /\ \A q \in Procs \ {p} : Working(q)'
      /\ \A b \in Articles : b \in Loose <=> b \in torn \/ Holds(o, b)
      /\ \A b \in Articles : b \in Loose' <=> b \in torn' \/ Holds(op'[p], b)
    BY <1>1, Alone
<1>3. \A b \in Articles : b \in Loose <=> b \in Loose'
    BY <1>1, <1>2 DEF Holds
<1>4. Working(p)'
    BY <1>1 DEF FitInv, Working
<1>5. Last(db, files, Loose') /\ \A d \in Database : Fit(d, files, Loose) => Fit(d, files, Loose')
    BY <1>3 DEF FitInv, Last, Fit, Agree
<1>6. CASE o.do = "delete" /\ files' = Emptied(files, a)
    BY <1>1, <1>2, <1>4, <1>5, <1>6, DeletedFiles, StaysFit
<1>7. CASE o.do = "reset" /\ files' = EmptyFiles
    BY <1>1, <1>2, <1>4, <1>7, ResetFiles, StaysFit
<1> QED BY <1>1, <1>6, <1>7 DEF RemoveFiles

LEMMA CommitDeleteFits ==
    ASSUME WorkInv, FitInv, NEW p \in Procs, Works(p), CommitDelete(p)
    PROVE  FitInv'
<1> DEFINE a == op[p].art
           o == op[p]
<1>1. /\ o.pc = "commit" /\ o.do = "delete" /\ Locked(p) /\ a \in Articles /\ Engaged(p)
      /\ View(p) \in Database /\ op'[p].do = "idle" /\ UNCHANGED files /\ Commit(p, View(p))
      /\ torn' = torn \ {a}
    BY Moved DEF CommitDelete, Doing, Locked
<1>2. /\ \A q \in Procs \ {p} : Working(q)'
      /\ \A b \in Articles : b \in Loose <=> b \in torn \/ Holds(o, b)
      /\ \A b \in Articles : b \in Loose' <=> b \in torn' \/ Holds(op'[p], b)
    BY <1>1, Alone
<1>3. Working(p)' /\ pending[p] # NoDb /\ pending[p].rows[a] = "none"
    BY <1>1, OutsideAfter DEF FitInv, Working
<1>4. View(p) = pending[p] /\ Fit(View(p), files, Loose)
    BY <1>1, <1>3, Writable DEF View
<1>5. Fit(View(p), files', Loose')
    BY <1>1, <1>2, <1>3, <1>4 DEF Fit, Complete, Agree, Holds
<1> QED BY <1>1, <1>2, <1>3, <1>5, CommitsFit

LEMMA SeedFits ==
    ASSUME WorkInv, FitInv, NEW p \in Procs, Works(p), SeedIfEmpty(p)
    PROVE  FitInv'
<1> DEFINE o == op[p]
           d == [View(p) EXCEPT !.rows[Seed] = "new"]
<1>1. /\ o.pc = "seed" /\ o.do \in {"start", "reset"} /\ Locked(p) /\ Engaged(p) /\ Present
      /\ View(p) \in Database /\ op'[p].do = o.do /\ op'[p].pc = "revise"
      /\ CanWrite(p) /\ UNCHANGED torn
    BY Standing, Moved DEF SeedIfEmpty, Locked
<1>2. /\ \A q \in Procs \ {p} : Working(q)'
      /\ \A b \in Articles : b \in Loose <=> b \in torn \/ Holds(o, b)
      /\ \A b \in Articles : b \in Loose' <=> b \in torn' \/ Holds(op'[p], b)
    BY <1>1, Alone
<1>3. \A b \in Articles : b \in Loose <=> b \in Loose'
    BY <1>1, <1>2 DEF Holds
<1>4. \A q \in Procs : pending'[q] = NoDb \/ pending'[q] = pending[q]
    <2>1. CASE UNCHANGED pending
        BY <2>1
    <2>2. CASE Commit(p, d)
        BY <1>1, <2>2, AloneCommits
    <2> QED BY <2>1, <2>2 DEF SeedIfEmpty
<1>5. Working(p)'
    BY <1>1, <1>4 DEF FitInv, Working
<1>6. CASE UNCHANGED <<diskVars, pending>>
    BY <1>1, <1>2, <1>3, <1>5, <1>6, KeepsFit DEF diskVars
<1>7. CASE /\ WriteBody(Seed, "seed") /\ Commit(p, d)
           /\ \A a \in Articles : View(p).rows[a] = "none"
    <2>1. Seed \in Articles /\ "seed" \in Text /\ "seed" # "none"
        BY WorkAssumption, Texty
    <2>2. /\ d \in Database /\ d.rows = [View(p).rows EXCEPT ![Seed] = "new"]
          /\ d.assets = View(p).assets /\ View(p).rows \in [Articles -> Text \cup {"none", "new"}]
        BY <1>1, <2>1, RowWritten DEF Database
    <2>3. d.rows[Seed] = "new" /\ \A b \in Articles \ {Seed} : d.rows[b] = "none"
        BY <1>7, <2>1, <2>2
    <2>4. files'.body = [files.body EXCEPT ![Seed] = "seed"] /\ files'.assets = files.assets
        BY <1>1, <1>7, <2>1, BodyWritten DEF WriteBody, Present
    <2>5. files'.body[Seed] = "seed"
        BY <1>1, <2>1, <2>4 DEF Present, Directory
    <2>6. View(p).assets \subseteq files.assets
        BY <1>1, Writable DEF Fit, Complete
    <2> HIDE DEF d
    <2>7. Fit(d, files', Loose')
        BY <2>1, <2>2, <2>3, <2>4, <2>5, <2>6 DEF Fit, Complete, Agree
    <2> QED BY <1>1, <1>2, <1>5, <1>7, <2>2, <2>7, CommitsFit
<1> QED BY <1>6, <1>7 DEF SeedIfEmpty, Row

LEMMA ReviseFits ==
    ASSUME WorkInv, FitInv, NEW p \in Procs, Works(p), EnsureRevisions(p)
    PROVE  FitInv'
<1> DEFINE o == op[p]
           d == Revised(View(p))
<1>1. /\ o.pc = "revise" /\ o.do \in {"start", "reset"} /\ Locked(p) /\ Engaged(p) /\ Present
      /\ View(p) \in Database /\ op'[p].do = "idle"
      /\ CanWrite(p) /\ Commit(p, d) /\ UNCHANGED <<files, torn>>
    BY Standing, Moved DEF EnsureRevisions, Locked
<1>2. /\ \A q \in Procs \ {p} : Working(q)'
      /\ \A b \in Articles : b \in Loose <=> b \in torn \/ Holds(o, b)
      /\ \A b \in Articles : b \in Loose' <=> b \in torn' \/ Holds(op'[p], b)
    BY <1>1, Alone
<1>3. (\A b \in Articles : b \in Loose <=> b \in Loose') /\ Working(p)'
    BY <1>1, <1>2, OutsideAfter DEF Holds
<1>4. /\ d \in Database /\ d.assets = View(p).assets
      /\ d.rows = [a \in Articles |->
                     IF View(p).rows[a] = "new" THEN ReadBody(a) ELSE View(p).rows[a]]
    BY <1>1, RowsRevised DEF Present
<1>5. Fit(View(p), files, Loose)
    BY <1>1, Writable
<1> HIDE DEF d
<1>6. Complete(d, files')
    BY <1>1, <1>4, <1>5 DEF Fit, Complete
<1>7. Agree(d, files', Loose')
    BY <1>1, <1>3, <1>4, <1>5 DEF Fit, Complete, Agree, ReadBody
<1> QED BY <1>1, <1>2, <1>3, <1>4, <1>6, <1>7, CommitsFit DEF Fit

LEMMA BackupFits ==
    ASSUME WorkInv, FitInv, NEW p \in Procs, Works(p), CopyFiles(p) \/ Publish(p)
    PROVE  FitInv'
<1> DEFINE o == op[p]
<1>1. /\ o.pc \in {"copy", "publish"} /\ o.do = "backup" /\ Locked(p) /\ Present
      /\ o \in Operation /\ UNCHANGED <<db, files, pending, torn>>
    BY Standing DEF CopyFiles, Publish, Locked, diskVars
<1>2. /\ \A q \in Procs \ {p} : Working(q)'
      /\ \A b \in Articles : b \in Loose <=> b \in torn \/ Holds(o, b)
      /\ \A b \in Articles : b \in Loose' <=> b \in torn' \/ Holds(op'[p], b)
    BY <1>1, Alone
<1>3. \A b \in Articles : b \in Loose => b \in Loose'
    BY <1>1, <1>2 DEF Holds
<1>4. Working(p)'
    <2>1. CASE Publish(p)
        <3>1. op'[p].do = "idle"
            BY <1>1, <2>1, Moved DEF Publish
        <3> QED BY <3>1, OutsideAfter
    <2>2. CASE CopyFiles(p)
        <3>1. op' = [op EXCEPT ![p] = [op[p] EXCEPT !.pc = "publish", !.copy = files]]
            BY <2>2 DEF CopyFiles, To
        <3>2. op'[p] = [op[p] EXCEPT !.pc = "publish", !.copy = files]
            BY <3>1 DEF WorkInv, WorkTypeOK
        <3>3. /\ op'[p].do = "backup" /\ op'[p].pc = "publish" /\ op'[p].snap = o.snap
              /\ op'[p].copy = files
            BY <1>1, <3>2 DEF Operation
        <3>4. Last(o.snap, files, torn)
            BY <1>1, <2>2 DEF CopyFiles, FitInv, Working
        <3> QED BY <1>1, <3>3, <3>4 DEF Working
    <2> QED BY <2>1, <2>2
<1> QED BY <1>1, <1>2, <1>3, <1>4, KeepsFit

(* A bundle is published when every row in it has its file; what is in the *)
(* file is then the text of the row.                                       *)
LEMMA BundlesKept ==
    ASSUME WorkInv, FitInv, BundlesAreWhole, NEW p \in Procs, Works(p)
    PROVE  BundlesAreWhole'
<1>1. CASE UNCHANGED bundles
    BY <1>1 DEF BundlesAreWhole
<1>2. CASE Publish(p)
    <2> DEFINE new == [at |-> clock, db |-> op[p].snap, files |-> op[p].copy, torn |-> torn,
                       sound |-> TRUE]
    <2>1. op[p].pc = "publish" /\ op[p].do = "backup"
        BY <1>2, Standing DEF Publish
    <2>2. Last(op[p].snap, op[p].copy, torn)
        BY <2>1 DEF FitInv, Working
    <2>3. bundles' = bundles \/ (bundles' = Pruned(bundles \cup {new})
                                   /\ Complete(op[p].snap, op[p].copy))
        BY <1>2 DEF Publish, Summarized
    <2>4. Complete(op[p].snap, op[p].copy) => Fit(new.db, new.files, new.torn)
        BY <2>2, LastFits
    <2> HIDE DEF new
    <2>5. \A b \in bundles' : b \in bundles \/ (b = new /\ Fit(new.db, new.files, new.torn))
        BY <2>3, <2>4 DEF Pruned
    <2> QED BY <2>5 DEF BundlesAreWhole, Fit
<1> QED BY <1>1, <1>2, Untouched

(* An operation begins with the lock and has done nothing yet.             *)
LEMMA BegunFits ==
    ASSUME WorkInv, FitInv, NEW p \in Procs, Works(p), p \in up, \A q \in Procs : ~Locked(q),
           op[p] = Idle, UNCHANGED <<db, files, pending, torn>>, op'[p].pc # "commit", Working(p)'
    PROVE  FitInv'
<1>1. /\ \A q \in Procs \ {p} : Working(q)'
      /\ \A b \in Articles : b \in Loose <=> b \in torn \/ Holds(op[p], b)
      /\ \A b \in Articles : b \in Loose' <=> b \in torn' \/ Holds(op'[p], b)
    BY Alone
<1>2. \A b \in Articles : b \in Loose => b \in Loose'
    BY <1>1, Idles DEF Holds
<1> QED BY <1>1, <1>2, Open, KeepsFit

LEMMA BeginCreateFits ==
    ASSUME WorkInv, FitInv, NEW p \in Procs, Works(p), NEW a \in Articles, NEW text \in Text,
           \/ BeginCreate(p, a, text) \/ BeginSave(p, a, text) \/ BeginAsset(p, a)
    PROVE  FitInv'
<1>1. /\ p \in up /\ op[p] = Idle /\ \A q \in Procs : ~Locked(q)
      /\ UNCHANGED <<db, files, pending, torn>>
    BY DEF BeginCreate, BeginSave, BeginAsset, MayBegin, MaySave, Free, diskVars
<1>2. /\ op'[p].do \in {"create", "save", "asset"} /\ op'[p].pc = "write"
      /\ op'[p].do = "create" => op'[p].art = a /\ db.rows[a] = "none"
    <2>1. op \in [Procs -> Operation]
        BY DEF WorkInv, WorkTypeOK
    <2>2. CASE BeginCreate(p, a, text)
        <3> DEFINE o == [Idle EXCEPT !.do = "create", !.pc = "write", !.art = a, !.text = text]
        <3>1. op'[p] = o /\ db.rows[a] = "none"
            BY <2>1, <2>2 DEF BeginCreate, To
        <3>2. o.do = "create" /\ o.pc = "write" /\ o.art = a
            BY Idles DEF Operation
        <3> QED BY <3>1, <3>2
    <2>3. CASE BeginSave(p, a, text)
        <3> DEFINE o == [Idle EXCEPT !.do = "save", !.pc = "write", !.art = a, !.text = text]
        <3>1. op'[p] = o
            BY <2>1, <2>3 DEF BeginSave, To
        <3>2. o.do = "save" /\ o.pc = "write"
            BY Idles DEF Operation
        <3> QED BY <3>1, <3>2
    <2>4. CASE BeginAsset(p, a)
        <3> DEFINE o == [Idle EXCEPT !.do = "asset", !.pc = "write", !.art = a]
        <3>1. op'[p] = o
            BY <2>1, <2>4 DEF BeginAsset, To
        <3>2. o.do = "asset" /\ o.pc = "write"
            BY Idles DEF Operation
        <3> QED BY <3>1, <3>2
    <2> QED BY <2>2, <2>3, <2>4
<1>3. Working(p)'
    BY <1>1, <1>2 DEF Working
<1> QED BY <1>1, <1>2, <1>3, BegunFits

LEMMA BeginDeleteFits ==
    ASSUME WorkInv, FitInv, NEW p \in Procs, Works(p), NEW a \in Articles, BeginDelete(p, a)
    PROVE  FitInv'
<1> DEFINE o == [Idle EXCEPT !.do = "delete", !.pc = "rmtree", !.art = a]
           d == [View(p) EXCEPT !.rows[a] = "none", !.assets = @ \ {a}]
<1>1. /\ p \in up /\ op[p] = Idle /\ CanWrite(p) /\ \A q \in Procs : ~Locked(q)
      /\ UNCHANGED <<db, files, torn>> /\ pending' = [pending EXCEPT ![p] = d]
      /\ op' = [op EXCEPT ![p] = o]
    BY DEF BeginDelete, MayBegin, Free, diskVars, To
<1>2. /\ View(p) \in Database /\ Truth(View(p)) /\ Fit(View(p), files, Loose) /\ Present
    BY <1>1, Open, Writable
<1>3. /\ d \in Database /\ d.rows = [View(p).rows EXCEPT ![a] = "none"]
      /\ d.assets = View(p).assets \ {a} /\ View(p).rows \in [Articles -> Text \cup {"none", "new"}]
    BY <1>2, RowDeleted DEF Database
<1>4. d.rows[a] = "none" /\ \A b \in Articles \ {a} : d.rows[b] = View(p).rows[b]
    BY <1>3
<1> HIDE DEF d
<1>5. op'[p] = o /\ pending'[p] = d /\ \A q \in Procs \ {p} : pending'[q] = NoDb
    BY <1>1, <1>2, <1>3, Kinds DEF CanWrite, WorkInv, WorkTypeOK
<1>6. o.do = "delete" /\ o.pc = "rmtree" /\ o.art = a
    BY Idles DEF Operation
<1> HIDE DEF o
<1>7. /\ \A q \in Procs \ {p} : Working(q)'
      /\ \A b \in Articles : b \in Loose <=> b \in torn \/ Holds(op[p], b)
      /\ \A b \in Articles : b \in Loose' <=> b \in torn' \/ Holds(op'[p], b)
    BY <1>1, Alone
<1>8. \A b \in Articles : b \in Loose => b \in Loose'
    BY <1>1, <1>7, Idles DEF Holds
<1>9. d # NoDb
    BY <1>3, Kinds
<1>10. Working(p)'
    BY <1>3, <1>4, <1>5, <1>6, <1>9 DEF Working
<1>11. Fit(d, files', Loose')
    BY <1>1, <1>2, <1>3, <1>4, <1>8 DEF Fit, Complete, Agree
<1>12. Leftover(d, db')
    BY <1>1, <1>2, <1>4 DEF Truth, Leftover
<1>13. Last(db', files', Loose')
    BY <1>1, <1>8 DEF FitInv, Last
<1> QED BY <1>5, <1>7, <1>9, <1>10, <1>11, <1>12, <1>13 DEF FitInv

LEMMA BeginResetFits ==
    ASSUME WorkInv, NEW p \in Procs, Works(p), BeginReset(p)
    PROVE  FitInv'
<1> DEFINE o == [Idle EXCEPT !.do = "reset", !.pc = "rmtree"]
<1>1. /\ CanWrite(p) /\ \A q \in Procs : ~Locked(q)
      /\ Commit(p, EmptyDb) /\ op' = [op EXCEPT ![p] = o]
    BY DEF BeginReset, MayBegin, Free, To
<1>2. db' = EmptyDb /\ \A q \in Procs : pending'[q] = NoDb
    BY <1>1, AloneCommits
<1>3. /\ EmptyDb \in Database /\ EmptyDb.assets = {} /\ \A a \in Articles : EmptyDb.rows[a] = "none"
    BY EmptyTypes DEF EmptyDb
<1>4. o.do = "reset" /\ o.pc = "rmtree" /\ op'[p] = o
    BY <1>1, Idles DEF Operation, WorkInv, WorkTypeOK
<1>5. Working(p)'
    BY <1>2, <1>3, <1>4 DEF Working
<1>6. Fit(EmptyDb, files', Loose')
    BY <1>3 DEF Fit, Complete, Agree
<1> QED BY <1>1, <1>3, <1>5, <1>6, Alone, CommitsFit

LEMMA BeginBackupFits ==
    ASSUME WorkInv, FitInv, NEW p \in Procs, Works(p), NEW x, BeginBackup(p, x)
    PROVE  FitInv'
<1> DEFINE o == [Idle EXCEPT !.do = "backup", !.pc = "copy", !.snap = View(p)]
<1>1. /\ p \in up /\ op[p] = Idle /\ \A q \in Procs : ~Locked(q)
      /\ UNCHANGED <<db, files, pending, torn>> /\ op' = [op EXCEPT ![p] = o]
    BY DEF BeginBackup, MayBegin, Free, diskVars, To
<1>2. op'[p] = o /\ o.do = "backup" /\ o.pc = "copy" /\ o.snap = View(p)
    BY <1>1, Idles DEF Operation, WorkInv, WorkTypeOK
<1>3. \A b \in Articles : b \in Loose <=> b \in torn
    BY <1>1, Alone, Idles DEF Holds
<1>4. Last(View(p), files, Loose)
    <2>1. CASE pending[p] # NoDb
        BY <1>1, <2>1, Writable, FitsLast
    <2>2. CASE pending[p] = NoDb
        BY <2>2 DEF View, FitInv
    <2> QED BY <2>1, <2>2
<1>5. Last(View(p), files, torn)
    BY <1>3, <1>4 DEF Last
<1> HIDE DEF o
<1>6. Working(p)'
    BY <1>1, <1>2, <1>5 DEF Working
<1> QED BY <1>1, <1>2, <1>6, BegunFits

(* A process that has touched no file commits what it has, or secrets.     *)
LEMMA OutsideFits ==
    ASSUME WorkInv, FitInv, NEW p \in Procs, Works(p), p \in up \/ Engaged(p),
           op[p].do \in {"idle", "rotate", "start"}, op'[p].do \in {"idle", "rotate", "start"},
           UNCHANGED <<files, torn>>,
           \/ UNCHANGED <<db, pending>>
           \/ \E d \in Database : /\ Commit(p, d) /\ (CanWrite(p) \/ pending[p] # NoDb)
                                  /\ d.rows = View(p).rows /\ d.assets = View(p).assets
    PROVE  FitInv'
<1>1. \A q \in Procs \ {p} : op'[q] = op[q]
    BY OneMoves
<1>2. \A b \in Articles : ~Holds(op[p], b) /\ ~Holds(op'[p], b)
    BY Outside, OutsideAfter
<1>3. \A b \in Articles : b \in Loose <=> b \in Loose'
    BY <1>1, <1>2 DEF Loose
<1>4. Working(p)'
    BY OutsideAfter
<1>5. CASE UNCHANGED <<db, pending>>
    <2>1. \A q \in Procs \ {p} : Working(q)'
        BY <1>1, <1>5 DEF FitInv, Working
    <2> QED BY <1>3, <1>4, <1>5, <2>1, Open, KeepsFit
<1>6. ASSUME NEW d \in Database, Commit(p, d), CanWrite(p) \/ pending[p] # NoDb,
             d.rows = View(p).rows, d.assets = View(p).assets
      PROVE  FitInv'
    <2>1. Truth(View(p)) /\ Fit(View(p), files, Loose)
        BY <1>6, Writable
    <2>2. Fit(d, files', Loose')
        BY <1>3, <1>6, <2>1 DEF Fit, Complete, Agree
    <2>3. CanWrite(p)
        BY <1>6 DEF CanWrite, WorkInv, LockInv
    <2>4. db' = d /\ \A q \in Procs : pending'[q] = NoDb
        BY <1>6, <2>3, AloneCommits
    <2>5. ASSUME NEW q \in Procs \ {p} PROVE Working(q)'
        <3>1. op'[q] = op[q] /\ Working(q) /\ pending[q] = NoDb
            BY <1>1, <2>3 DEF FitInv, CanWrite
        <3>2. op[q].do = "create" => d.rows[op[q].art] = "none"
            <4>1. op[q].art \in Articles
                BY DEF WorkInv, WorkTypeOK, Operation
            <4> QED BY <1>6, <2>1, <3>1, <4>1 DEF Working, Truth, Leftover
        <3>3. op[q].do = "reset" => d.rows = db.rows /\ d.assets = db.assets
            BY <1>6, <3>1 DEF Working, View
        <3> QED BY <2>4, <3>1, <3>2, <3>3 DEF Working
    <2> QED BY <1>4, <1>6, <2>2, <2>5, CommitsFit
<1> QED BY <1>5, <1>6

LEMMA ReencryptFits ==
    ASSUME WorkInv, FitInv, NEW p \in Procs, Works(p), NEW s \in Slots, Reencrypt(p, s),
           ReencryptTokens(p) \/ ReencryptUrls(p)
    PROVE  FitInv'
<1> DEFINE secret == op[p].snap.secrets[s]
           d == Reencrypted(View(p), s, secret)
<1>1. /\ op[p].do \in {"start", "rotate"} /\ Engaged(p) /\ View(p) \in Database
      /\ op[p] \in Operation /\ UNCHANGED <<files, torn>>
    BY Standing, Moved DEF ReencryptTokens, ReencryptUrls
<1>2. op'[p].do \in {"idle", "rotate", "start"}
    <2>1. \/ op'[p] = Idle \/ op'[p] = [op[p] EXCEPT !.pc = "urls", !.snap = db]
          \/ op'[p] = [op[p] EXCEPT !.pc = "seed", !.snap = NoDb]
        BY DEF ReencryptTokens, ReencryptUrls, To, WorkInv, WorkTypeOK
    <2> QED BY <1>1, <2>1, Idles DEF Operation
<1>3. UNCHANGED <<db, pending>> \/ (Commit(p, d) /\ CanWrite(p))
    BY DEF Reencrypt
<1>4. d.rows = View(p).rows /\ d.assets = View(p).assets
    BY <1>1 DEF Reencrypted, Database
<1> HIDE DEF d
<1>5. Commit(p, d) => d \in Database
    BY OneMoves DEF Commit
<1> QED BY <1>1, <1>2, <1>3, <1>4, <1>5, OutsideFits

LEMMA UnlockedFits ==
    ASSUME WorkInv, FitInv, Uncrashed, NEW p \in Procs, Works(p),
           \/ Stop(p) \/ CommitLeftover(p)
           \/ \E s \in Slots : SaveSecret(p, s) \/ EraseSecret(p, s)
           \/ \E key \in Keys : RotateKey(p, key)
    PROVE  FitInv'
<1>1. p \in up /\ op[p] = Idle /\ op[p].do = "idle" /\ UNCHANGED <<files, torn>>
    BY Idles DEF Stop, CommitLeftover, SaveSecret, EraseSecret, RotateKey, MayWriteSecret, diskVars
<1>2. op'[p].do \in {"idle", "rotate"}
    <2>1. ASSUME NEW key \in Keys, RotateKey(p, key) PROVE op'[p].do = "rotate"
        BY <2>1, Idles DEF RotateKey, To, WorkInv, WorkTypeOK, Operation
    <2> QED BY <1>1, <2>1 DEF Stop, CommitLeftover, SaveSecret, EraseSecret
<1>3. View(p) \in Database
    BY <1>1, Open
<1>4. \/ UNCHANGED <<db, pending>>
      \/ \E d : /\ Commit(p, d) /\ (CanWrite(p) \/ pending[p] # NoDb)
                /\ d.rows = View(p).rows /\ d.assets = View(p).assets
    <2>1. CASE Stop(p)
        <3>1. pending[p] = NoDb
            BY <2>1 DEF Stop, Kept, Uncrashed, WorkDoes
        <3> QED BY <2>1, <3>1 DEF Stop, diskVars, WorkInv, WorkTypeOK
    <2>2. CASE CommitLeftover(p)
        BY <2>2 DEF CommitLeftover, View
    <2>3. CASE \E s \in Slots : SaveSecret(p, s) \/ EraseSecret(p, s)
        <3>1. PICK s \in Slots : SaveSecret(p, s) \/ EraseSecret(p, s)
            BY <2>3
        <3>2. CanWrite(p) /\ \E x : Commit(p, [View(p) EXCEPT !.secrets[s] = x])
            BY <3>1 DEF SaveSecret, EraseSecret, MayWriteSecret
        <3>3. \A x : /\ [View(p) EXCEPT !.secrets[s] = x].rows = View(p).rows
                     /\ [View(p) EXCEPT !.secrets[s] = x].assets = View(p).assets
            BY <1>3 DEF Database
        <3> QED BY <3>2, <3>3
    <2>4. CASE \E key \in Keys : RotateKey(p, key)
        BY <2>4 DEF RotateKey, diskVars
    <2> QED BY <2>1, <2>2, <2>3, <2>4
<1>5. \A d : Commit(p, d) => d \in Database
    BY OneMoves DEF Commit
<1> QED BY <1>1, <1>2, <1>4, <1>5, OutsideFits

(* An operation that fails, or a process that is killed.                   *)
LEMMA StoppedFits ==
    ASSUME WorkInv, FitInv, Uncrashed, NEW p \in Procs, Works(p), Fails(p) \/ Crash(p)
    PROVE  FitInv'
<1>1. /\ op[p] \in Operation /\ Placed(op[p]) /\ To(p, Idle) /\ UNCHANGED db
      /\ files' \in CutFiles(p) /\ torn' = Torn(p, files')
      /\ p \in up \/ op[p] # Idle
    <2>1. Fails(p) => op[p] # Idle
        BY Idles DEF Fails
    <2> QED BY <2>1 DEF Fails, Crash, WorkInv, WorkTypeOK, LockInv
<1>2. op'[p].do = "idle" /\ (p \in up \/ Engaged(p))
    BY <1>1, Idles, IsIdle DEF To, Engaged, WorkInv, WorkTypeOK
<1>3. UNCHANGED pending
    <2>1. CASE Crash(p)
        <3>1. pending[p] = NoDb
            BY <2>1 DEF Crash, Kept, Uncrashed, WorkDoes
        <3> QED BY <2>1, <3>1 DEF Crash, WorkInv, WorkTypeOK
    <2> QED BY <2>1 DEF Fails
<1>4. CASE Locked(p)
    BY <1>1, <1>2, <1>3, <1>4, CutsFit
<1>5. CASE ~Locked(p)
    <2>1. op[p].do \in {"idle", "rotate"} /\ op[p].pc \notin {"write", "rmtree", "commit"}
        BY <1>1, <1>5, Idles DEF Locked, Placed
    <2>2. files' = files /\ torn' = torn
        BY <1>1, <2>1 DEF CutFiles, Torn, Cut, Doing
    <2> QED BY <1>1, <1>2, <1>3, <2>1, <2>2, OutsideFits
<1> QED BY <1>4, <1>5

LEMMA StartFits ==
    ASSUME WorkInv, FilesInv, Settled, NEW p \in Procs, Works(p), Start(p)
    PROVE  FitInv'
<1> DEFINE d == IF db = NoDb THEN EmptyDb ELSE db
           o == [Idle EXCEPT !.do = "start", !.pc = "tokens", !.snap = d]
<1>1. /\ db' = d /\ files' = IF files = NoFiles THEN EmptyFiles ELSE files
      /\ op' = [op EXCEPT ![p] = o] /\ UNCHANGED <<pending, torn>> /\ p \notin up
      /\ swap.pc \notin Moving /\ \A q \in Procs : ~Locked(q)
    BY DEF Start, To, Free, Moving
<1>2. d \in Database
    BY EmptyTypes DEF WorkInv, WorkTypeOK
<1>3. o.do = "start" /\ op'[p] = o
    BY <1>1, <1>2, Idles DEF Operation, WorkInv, WorkTypeOK
<1> HIDE DEF o
<1>4. /\ \A q \in Procs : Working(q)'
      /\ \A b \in Articles : b \in Loose <=> b \in torn \/ Holds(op[p], b)
      /\ \A b \in Articles : b \in Loose' <=> b \in torn' \/ Holds(op'[p], b)
    BY <1>1, <1>3, Alone, OutsideAfter
<1>5. op[p] = Idle
    BY DEF Start, Free
<1>6. \A b \in Articles : b \in Loose => b \in Loose'
    BY <1>1, <1>4, <1>5, Idles DEF Holds
<1>7. CASE db = NoDb
    <2>1. \A q \in Procs : pending'[q] = NoDb
        BY <1>1, <1>7, Kinds DEF WorkInv, LockInv, Present
    <2>2. EmptyDb.assets = {} /\ \A a \in Articles : EmptyDb.rows[a] = "none"
        BY DEF EmptyDb
    <2>3. Fit(db', files', Loose') /\ Last(db', files', Loose')
        BY <1>1, <1>7, <2>2 DEF Fit, Complete, Agree, Last
    <2> QED BY <1>4, <2>1, <2>3 DEF FitInv
<1>8. CASE db # NoDb
    <2>1. FitInv /\ files # NoFiles
        BY <1>1, <1>8 DEF FilesInv, Settled
    <2>2. Present /\ UNCHANGED <<db, files, pending>>
        BY <1>1, <1>8, <2>1 DEF Present, WorkInv, WorkTypeOK
    <2> QED BY <1>4, <1>6, <2>1, <2>2, KeepsFit
<1> QED BY <1>7, <1>8

LEMMA WorksFit ==
    ASSUME WorkInv, FilesInv, Settled, Uncrashed, NEW p \in Procs, Works(p)
    PROVE  FilesInv'
<1>1. db' # NoDb /\ swap'.pc = "idle"
    BY OneMoves
<1>2. SUFFICES FitInv' /\ BundlesAreWhole'
    BY <1>1 DEF FilesInv, Moving
<1>3. CASE Start(p)
    <2>1. UNCHANGED bundles
        BY <1>3 DEF Start
    <2> QED BY <1>3, <2>1, StartFits DEF FilesInv, BundlesAreWhole
<1>4. CASE ~Start(p)
    <2>1. p \in up \/ Engaged(p)
        <3>1. op[p] \in Operation /\ Placed(op[p])
            BY DEF WorkInv, WorkTypeOK, LockInv
        <3>2. p \in up \/ op[p].pc # "idle" \/ op[p] # Idle
            BY <1>4 DEF Works, Continue, Write, CommitWrite, WriteRefused, RemoveFiles, CommitDelete,
                   ReencryptTokens, ReencryptUrls, SeedIfEmpty, EnsureRevisions, CopyFiles, Publish,
                   Doing, Stop, CommitLeftover, BeginReset, Fails, Crash, BeginCreate, BeginSave,
                   BeginAsset, BeginDelete, BeginBackup, SaveSecret, EraseSecret, RotateKey,
                   MayBegin, MaySave, MayWriteSecret
        <3> QED BY <3>1, <3>2, IsIdle DEF Engaged
    <2>2. FitInv
        BY <2>1, Open, NoSwap, Kinds DEF Present, FilesInv, Moving
    <2>3. BundlesAreWhole'
        BY <2>2, BundlesKept DEF FilesInv
    <2>4. CASE Continue(p)
        <3>1. ReencryptTokens(p) \/ ReencryptUrls(p) => FitInv'
            BY <2>2, ReencryptFits DEF ReencryptTokens, ReencryptUrls, Slots
        <3> QED BY <2>2, <2>3, <2>4, <3>1, WriteFits, CommitWriteFits, RefusedFits, RemoveFits,
                CommitDeleteFits, SeedFits, ReviseFits, BackupFits DEF Continue
    <2>5. CASE Fails(p) \/ Crash(p)
        BY <2>2, <2>3, <2>5, StoppedFits
    <2>6. CASE \/ Stop(p) \/ CommitLeftover(p)
               \/ \E s \in Slots : SaveSecret(p, s) \/ EraseSecret(p, s)
               \/ \E key \in Keys : RotateKey(p, key)
        BY <2>2, <2>3, <2>6, UnlockedFits
    <2>7. CASE BeginReset(p)
        BY <2>3, <2>7, BeginResetFits
    <2>8. CASE \E a \in Articles : \/ \E text \in Texts : BeginCreate(p, a, text)
                                   \/ \E text \in Text : BeginSave(p, a, text)
                                   \/ BeginAsset(p, a) \/ BeginDelete(p, a)
        <3>1. PICK a \in Articles :
                \/ \E text \in Text : BeginCreate(p, a, text) \/ BeginSave(p, a, text)
                \/ BeginAsset(p, a) \/ BeginDelete(p, a)
            BY <2>8, Texty
        <3>2. ASSUME NEW text \in Text, BeginCreate(p, a, text) \/ BeginSave(p, a, text)
              PROVE  FitInv'
            BY <2>2, <3>2, BeginCreateFits
        <3>3. CASE BeginAsset(p, a)
            BY <2>2, <2>3, <3>3, BeginCreateFits, Texty
        <3>4. CASE BeginDelete(p, a)
            BY <2>2, <2>3, <3>4, BeginDeleteFits
        <3> QED BY <2>3, <3>1, <3>2, <3>3, <3>4
    <2>9. CASE \E o \in {"backup", "due"} : BeginBackup(p, o)
        BY <2>2, <2>3, <2>9, BeginBackupFits
    <2> QED BY <1>4, <2>4, <2>5, <2>6, <2>7, <2>8, <2>9 DEF Works
<1> QED BY <1>3, <1>4

(* A restore starts from a workspace at rest, and from a bundle that was   *)
(* verified.                                                               *)
LEMMA RestoreFits ==
    ASSUME WorkInv, FilesInv, Uncrashed, NEW p \in Procs, NEW b \in bundles, BeginRestore(p, b)
    PROVE  FilesInv'
<1>1. /\ swap'.pc = "db_out" /\ swap'.new = b /\ swap'.old = [db |-> db, files |-> files]
      /\ \A q \in Procs : ~Engaged(q) /\ pending'[q] = NoDb /\ (q # p => pending[q] = NoDb)
      /\ pending[p] = NoDb \/ WorkDoes("crash_delete")
    BY RestoreBegins
<1>2. Present /\ swap.pc = "idle"
    BY RestoreBegins
<1>3. UNCHANGED <<bundles, torn>> /\ b.sound
    BY DEF BeginRestore, Verified
<1>4. FitInv
    BY <1>2, Kinds DEF FilesInv, Present, Moving
<1>5. \A q \in Procs : pending[q] = NoDb
    BY <1>1 DEF Uncrashed, WorkDoes
<1>6. \A q \in Procs, a \in Articles : ~Holds(op[q], a)
    BY <1>1, Outside DEF Engaged
<1>7. Fit(db, files, torn)
    BY <1>4, <1>5, <1>6 DEF FitInv, Loose
<1>8. swap'.old.db = db /\ swap'.old.files = files
    BY <1>1
<1>9. Fit(b.db, b.files, b.torn)
    BY <1>3 DEF FilesInv, BundlesAreWhole, Fit
<1> QED BY <1>1, <1>3, <1>7, <1>8, <1>9 DEF FilesInv, BundlesAreWhole, Moving

LEMMA SwapFits ==
    ASSUME WorkInv, FilesInv, Uncrashed, SwapStep \/ RestoreFails
    PROVE  FilesInv'
<1>1. /\ UNCHANGED <<op, pending>> /\ swap.pc \in Moving
      /\ \A q \in Procs : ~Engaged(q) /\ pending[q] = NoDb
      /\ swap'.new = swap.new /\ swap'.old = swap.old /\ swap' \in Restore
    BY SwapSteps
<1>2. /\ Fit(swap.old.db, swap.old.files, torn)
      /\ Fit(swap.new.db, swap.new.files, swap.new.torn)
    BY <1>1 DEF FilesInv
<1>3. UNCHANGED bundles
    BY DEF SwapStep, MoveDatabaseOut, MoveFilesOut, MoveDatabaseIn, MoveFilesIn,
           DropOldDatabase, DropOldFiles, RestoreFails
<1>4. BundlesAreWhole'
    BY <1>3 DEF FilesInv, BundlesAreWhole
<1>5. \A q \in Procs : Working(q)' /\ \A a \in Articles : ~Holds(op'[q], a)
    BY <1>1, OutsideAfter DEF Engaged
<1>6. Loose' = torn'
    BY <1>5, SwapSteps DEF Loose
<1>7. ASSUME Fit(db', files', torn') PROVE FitInv'
    BY <1>1, <1>5, <1>6, <1>7, FitsLast DEF FitInv
<1>8. CASE SwapStep /\ ~DropOldFiles
    <2>1. swap'.pc \in Moving /\ UNCHANGED torn
        BY <1>8 DEF SwapStep, MoveDatabaseOut, MoveFilesOut, MoveDatabaseIn, MoveFilesIn,
               DropOldDatabase, SwapTo, WorkInv, WorkTypeOK, Restore, Moving
    <2> QED BY <1>1, <1>2, <1>4, <2>1 DEF FilesInv
<1>9. CASE DropOldFiles
    <2>1. /\ swap'.pc = "done" /\ db' = swap.new.db /\ files' = swap.new.files
          /\ torn' = swap.new.torn
        BY <1>9 DEF DropOldFiles, diskVars, WorkInv, WorkTypeOK, SwapInv, Restore, Moving
    <2> QED BY <1>2, <1>4, <1>7, <2>1 DEF FilesInv, Moving
<1>10. CASE RestoreFails
    <2>1. /\ swap'.pc = "failed" /\ db' = swap.old.db /\ files' = swap.old.files /\ UNCHANGED torn
        BY <1>10, RollsBack DEF RestoreFails, SwapTo, Uncrashed, WorkInv, WorkTypeOK, Restore
    <2> QED BY <1>2, <1>4, <1>7, <2>1 DEF FilesInv, Moving
<1> QED BY <1>8, <1>9, <1>10

LEMMA FilesKept ==
    ASSUME WorkInv, FilesInv, Settled, Uncrashed, [WorkNext]_workVars
    PROVE  FilesInv'
<1>1. CASE \E p \in Procs : Works(p)
    BY <1>1, WorksFit
<1>2. CASE \E p \in Procs : Restores(p)
    BY <1>2, RestoreFits DEF Restores
<1>3. CASE SwapStep \/ RestoreFails
    BY <1>3, SwapFits
<1> DEFINE Same == FitInv' = FitInv /\ UNCHANGED <<db, swap, torn>>
<1>4. ASSUME UNCHANGED <<diskVars, pending, op, swap, torn>> PROVE Same
    BY <1>4 DEF diskVars, FitInv, Loose, Working
<1>5. CASE RetireKeys \/ Tick \/ UNCHANGED workVars
    <2>1. Same /\ UNCHANGED bundles
        BY <1>4, <1>5 DEF RetireKeys, Tick, workVars, diskVars
    <2> QED BY <2>1 DEF FilesInv, BundlesAreWhole
<1>6. ASSUME NEW b \in bundles, NEW a \in Articles, Damage(b, a) PROVE FilesInv'
    <2> DEFINE new == [b EXCEPT !.sound = FALSE, !.files.body[a] = "none"]
    <2>1. Same
        BY <1>4, <1>6 DEF Damage
    <2>2. bundles' = (bundles \ {b}) \cup {new}
        BY <1>6 DEF Damage
    <2>3. ~new.sound
        <3>1. b \in Bundle
            BY DEF WorkInv, WorkTypeOK
        <3> QED BY <3>1 DEF Bundle
    <2> HIDE DEF new
    <2> QED BY <2>1, <2>2, <2>3 DEF FilesInv, BundlesAreWhole
<1> QED BY <1>1, <1>2, <1>3, <1>5, <1>6, NoCrash, Actors DEF Nobody, Uncrashed

LEMMA FilesAlways == WorkSpec => [](Uncrashed => FilesInv)
<1>1. ASSUME WorkInv, Whole => Settled, Uncrashed => FilesInv, [WorkNext]_workVars
      PROVE  (Uncrashed => FilesInv)'
    <2>1. Uncrashed' = Uncrashed
        BY <1>1, ScopeStands DEF Uncrashed, Whole
    <2> QED BY <1>1, <2>1, FilesKept DEF Uncrashed
<1>2. WorkInit => (Uncrashed => FilesInv)
    BY DEF WorkInit, FilesInv, BundlesAreWhole, NoRestore, Moving
<1> QED BY <1>1, <1>2, WorkAlways, WholeAlways, PTL DEF WorkSpec

(* Whenever no operation is under way every row has its file, which holds  *)
(* the text of the latest revision, except after a save that was cut off   *)
(* (sqlite.py _write_body, create_article, store_asset, delete_articles,   *)
(* reset), when none of the risks that Uncrashed names is taken.           *)
THEOREM FilesFollowRows == WorkSpec => [](Uncrashed => RowsMatchFiles)
<1>1. ASSUME WorkInv, FilesInv, Quiet PROVE Complete(db, files) /\ Agree(db, files, torn)
    <2>1. /\ \A p \in Procs : ~Locked(p) /\ pending[p] = NoDb
          /\ swap.pc = "idle" /\ db # NoDb
        BY <1>1 DEF Quiet
    <2>2. \A p \in Procs, a \in Articles : ~Holds(op[p], a)
        BY <2>1, Outside DEF Locked
    <2> QED BY <1>1, <2>1, <2>2 DEF FilesInv, FitInv, Fit, Loose, Moving
<1>2. WorkInv /\ (Uncrashed => FilesInv) => (Uncrashed => RowsMatchFiles)
    BY <1>1 DEF RowsMatchFiles
<1> QED BY <1>2, WorkAlways, FilesAlways, PTL

(* A published bundle is the workspace of one moment, although database    *)
(* and files are copied one after the other (backups.py create_backup).    *)
THEOREM BundlesOfOneMoment == WorkSpec => [](Uncrashed => BundlesAreWhole)
<1>1. (Uncrashed => FilesInv) => (Uncrashed => BundlesAreWhole)
    BY DEF FilesInv
<1> QED BY <1>1, FilesAlways, PTL

=============================================================================
