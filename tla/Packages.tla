------------------------------ MODULE Packages ------------------------------
(***************************************************************************)
(* Uploading packages: UploadPluginPkg (one package) and UploadPluginBundle *)
(* (several) of internal/service/plugin_decoder.go, over PreparePackage,    *)
(* PersistPackage and rollbackPreparedPackage of                            *)
(* internal/core/plugin_manager/packages.go.  Three stores are written one  *)
(* after the other: the media bucket (assets, named by the hash of their    *)
(* content and file name, so two packages may share one), the package       *)
(* bucket, and the table of plugin declarations.                            *)
(***************************************************************************)
EXTENDS Naturals, Sequences, FiniteSets

CONSTANTS
  Uploaders,    \* the requests being served
  PackageIds,   \* plugin unique identifiers
  Builds,       \* the bytes an identifier may be packed as (signed, unsigned)
  Assets,       \* the icons of the packages
  AssetsOf,     \* the icons each identifier's declaration refers to
  MaxFaults     \* how many storage or database calls may fail

\* What is assumed of the constants.
PackagesAssumption ==
  /\ MaxFaults \in Nat
  /\ AssetsOf \in [PackageIds -> SUBSET Assets]
  /\ "none" \notin Builds

VARIABLES
  media,        \* the assets in the media bucket
  bucket,       \* the bytes in the package bucket
  declared,     \* the identifiers with a row of plugin_declarations
  uploads,      \* the requests
  pkgFaults,    \* calls that failed so far
  mixed,      \* history: a request wrote while another was being served
  before        \* history: what each request found at its start: the package bucket,
                \* the rows, the identifiers its bundle has twice, and which requests
                \* were over

pkgVars == <<media, bucket, declared, uploads, pkgFaults, mixed, before>>

\* One PreparedPackage, as PersistPackage resets it; marks are its flags: "existed",
\* "saved" and "created".
Prepared(id, build) ==
  [id |-> id, build |-> build, assets |-> {}, marks |-> {}, previous |-> "none"]

\* A request: the packages still to persist, those to roll back (the last one first), its
\* answer, and whether the rollback has lost a step.
Resting_ == [pc |-> "idle", todo |-> <<>>, kept |-> <<>>,
             answer |-> "none", undo |-> "whole"]

\* The type of the state.
PkgTypeOK ==
  /\ media \subseteq Assets
  /\ bucket \in [PackageIds -> Builds \cup {"none"}]
  /\ declared \subseteq PackageIds
  /\ pkgFaults \in 0..MaxFaults
  /\ \A u \in Uploaders :
       /\ uploads[u].pc \in {"idle", "exists", "get", "remap", "save", "look",
                             "create", "again", "undo_assets", "undo_row",
                             "undo_get", "undo_look", "undo_package", "ended"}
       /\ uploads[u].answer \in {"none", "success", "failure"}
       \* what a request rolls back is never more than what it persisted
       /\ uploads[u].pc # "idle" =>
            Len(uploads[u].todo) + Len(uploads[u].kept) \in 0..2

PkgInit ==
  /\ media = {} /\ bucket = [i \in PackageIds |-> "none"] /\ declared = {}
  /\ uploads = [u \in Uploaders |-> Resting_]
  /\ pkgFaults = 0 /\ mixed = FALSE
  /\ before = [u \in Uploaders |->
                 [bucket |-> bucket, declared |-> declared, twice |-> {}, over |-> {}]]

-----------------------------------------------------------------------------
Serving(u) == uploads[u].pc \notin {"idle", "ended"}
AtPkg(u, pc) == uploads[u].pc = pc
Head_(u) == Head(uploads[u].todo)

\* u goes on at pc with its current package changed to pkg.
With(u, pc, pkg) ==
  uploads' = [uploads EXCEPT ![u].pc = pc, ![u].todo = <<pkg>> \o Tail(@)]

ToPkg(u, pc) == uploads' = [uploads EXCEPT ![u].pc = pc]

\* A call fails, if the budget of faults allows one.
Fault == pkgFaults < MaxFaults /\ pkgFaults' = pkgFaults + 1
Fine == UNCHANGED pkgFaults

Wrote(u) == mixed' = (mixed \/ \E v \in Uploaders \ {u} : Serving(v))

StoresKept == UNCHANGED <<media, bucket, declared, mixed>>

-----------------------------------------------------------------------------
\* The identifiers that two packages of a bundle share: a signature leaves the checksum,
\* so a plugin packed and the same plugin signed are two of them.
Twice(pkgs) ==
  {i \in PackageIds : \E j, k \in DOMAIN pkgs : j # k /\ pkgs[j].id = i /\ pkgs[k].id = i}

\* PreparePackage decodes and validates every package of the request before
\* any is stored: a bad one answers an error with nothing written.
Upload(u, pkgs) ==
  /\ AtPkg(u, "idle")
  /\ \/ uploads' = [uploads EXCEPT ![u].pc = "exists", ![u].todo = pkgs]
     \/ uploads' = [uploads EXCEPT ![u].pc = "ended", ![u].answer = "failure"]
  /\ before' = [before EXCEPT ![u] = [bucket |-> bucket, declared |-> declared,
                                      twice |-> Twice(pkgs),
                                      over |-> {v \in Uploaders : AtPkg(v, "ended")}]]
  /\ UNCHANGED <<media, bucket, declared, pkgFaults, mixed>>

\* The current package is persisted: the next one of the bundle, or success.
Persisted(u, pkg) ==
  uploads' = [uploads EXCEPT
    ![u].todo = Tail(@), ![u].kept = <<pkg>> \o @,
    ![u].pc = IF Len(uploads[u].todo) = 1 THEN "ended" ELSE "exists",
    ![u].answer = IF Len(uploads[u].todo) = 1 THEN "success" ELSE @]

\* A mutant: only the package that failed is rolled back.
Rollback_Last(u, pkg) ==
  uploads' = [uploads EXCEPT
    ![u].todo = <<>>, ![u].kept = <<pkg>>, ![u].answer = "failure",
    ![u].pc = "undo_assets"]

\* UploadPluginBundle: the packages persisted before are rolled back, the
\* last one first; what this one wrote is rolled back before them.
Rollback(u, pkg) ==
  uploads' = [uploads EXCEPT
    ![u].todo = <<>>, ![u].kept = <<pkg>> \o @, ![u].answer = "failure",
    ![u].pc = "undo_assets"]

\* PersistPackage: whether the package is stored already.  An error here
\* returns before the first rollback of this package.
PersistExists(u) ==
  /\ AtPkg(u, "exists")
  /\ \/ /\ Fine
        /\ ToPkg(u, IF bucket[Head_(u).id] # "none" THEN "get" ELSE "remap")
     \/ Fault /\ Rollback(u, Head_(u))
  /\ StoresKept /\ UNCHANGED before

\* The bytes stored before are kept for a rollback.  (Another upload's
\* rollback may have deleted them since: Get then fails.)
PersistGet(u) ==
  LET pkg == Head_(u) IN
  /\ AtPkg(u, "get")
  /\ \/ /\ Fine /\ bucket[pkg.id] # "none"
        /\ With(u, "remap", [pkg EXCEPT !.marks = @ \cup {"existed"},
                                        !.previous = bucket[pkg.id]])
     \/ /\ IF bucket[pkg.id] = "none" THEN Fine ELSE Fault
        /\ Rollback(u, pkg)
  /\ StoresKept /\ UNCHANGED before

\* RemapAssets uploads the declaration's icons one after the other; the ones
\* uploaded before a failure are rolled back.
RemapAssets(u) ==
  LET pkg == Head_(u) IN
  /\ AtPkg(u, "remap")
  /\ \/ \E a \in AssetsOf[pkg.id] \ pkg.assets :
          /\ Fine /\ Wrote(u)
          /\ media' = media \cup {a}
          /\ With(u, "remap", [pkg EXCEPT !.assets = @ \cup {a}])
     \/ /\ pkg.assets = AssetsOf[pkg.id]
        /\ Fine /\ ToPkg(u, "save") /\ UNCHANGED <<media, mixed>>
     \/ /\ pkg.assets # AssetsOf[pkg.id]
        /\ Fault /\ Rollback(u, pkg) /\ UNCHANGED <<media, mixed>>
  /\ UNCHANGED <<bucket, declared, before>>

PersistSave(u) ==
  LET pkg == Head_(u) IN
  /\ AtPkg(u, "save")
  /\ \/ /\ Fine /\ Wrote(u)
        /\ bucket' = [bucket EXCEPT ![pkg.id] = pkg.build]
        /\ With(u, "look", [pkg EXCEPT !.marks = @ \cup {"saved"}])
     \/ /\ Fault /\ Rollback(u, pkg) /\ UNCHANGED <<bucket, mixed>>
  /\ UNCHANGED <<media, declared, before>>

PersistLook(u) ==
  LET pkg == Head_(u) IN
  /\ AtPkg(u, "look")
  /\ \/ Fine /\ pkg.id \in declared /\ Persisted(u, pkg)
     \/ Fine /\ pkg.id \notin declared /\ ToPkg(u, "create")
     \/ Fault /\ Rollback(u, pkg)
  /\ StoresKept /\ UNCHANGED before

\* The insertion is refused by the unique index when another request has
\* inserted the row since: that counts as success, and the row is not ours.
PersistCreate(u) ==
  LET pkg == Head_(u) IN
  /\ AtPkg(u, "create")
  /\ \/ /\ Fine /\ pkg.id \notin declared /\ Wrote(u)
        /\ declared' = declared \cup {pkg.id}
        /\ Persisted(u, [pkg EXCEPT !.marks = @ \cup {"created"}])
     \/ /\ Fine /\ pkg.id \in declared
        /\ Persisted(u, pkg) /\ UNCHANGED <<declared, mixed>>
     \/ /\ Fault /\ ToPkg(u, "again") /\ UNCHANGED <<declared, mixed>>
  /\ UNCHANGED <<media, bucket, before>>

\* Any other error: one more look tells whether the row is there.
PersistAgain(u) ==
  LET pkg == Head_(u) IN
  /\ AtPkg(u, "again")
  /\ \/ Fine /\ pkg.id \in declared /\ Persisted(u, pkg)
     \/ Fine /\ pkg.id \notin declared /\ Rollback(u, pkg)
     \/ Fault /\ Rollback(u, pkg)
  /\ StoresKept /\ UNCHANGED before

-----------------------------------------------------------------------------
Undone(u) == Head(uploads[u].kept)

\* The next package to roll back, or the end.
NextUndo(u, undo) ==
  uploads' = [uploads EXCEPT
    ![u].kept = Tail(@), ![u].undo = undo,
    ![u].pc = IF Len(uploads[u].kept) = 1 THEN "ended" ELSE "undo_assets"]

\* Errors of the rollback's own calls are dropped: the step is lost.
UndoLost(u, pc) ==
  Fault /\ uploads' = [uploads EXCEPT ![u].pc = pc, ![u].undo = "partial"]

\* rollbackPreparedPackage: the assets, whoever else refers to them.
UndoAssets(u) ==
  /\ AtPkg(u, "undo_assets")
  /\ LET pkg == Undone(u)
         pc == IF "created" \in pkg.marks THEN "undo_row"
               ELSE IF "saved" \in pkg.marks THEN "undo_get" ELSE "undo_none" IN
     IF pkg.assets = {}
     THEN /\ Fine /\ UNCHANGED <<media, mixed>>
          /\ IF pc = "undo_none" THEN NextUndo(u, uploads[u].undo) ELSE ToPkg(u, pc)
     ELSE \E a \in pkg.assets :
            /\ \/ Fine /\ media' = media \ {a}
               \/ Fault /\ UNCHANGED media
            /\ Wrote(u)
            /\ uploads' = [uploads EXCEPT ![u].kept = <<[pkg EXCEPT !.assets = @ \ {a}]>> \o Tail(@)]
  /\ UNCHANGED <<bucket, declared, before>>

\* The row, if this request inserted it.
UndoRow(u) ==
  /\ AtPkg(u, "undo_row")
  /\ \/ /\ Fine /\ Wrote(u)
        /\ declared' = declared \ {Undone(u).id} /\ ToPkg(u, "undo_get")
     \/ /\ UndoLost(u, "undo_get") /\ UNCHANGED <<declared, mixed>>
  /\ UNCHANGED <<media, bucket, before>>

\* The package, if the bucket still holds our bytes ...
UndoGet(u) ==
  /\ AtPkg(u, "undo_get")
  /\ \/ /\ Fine /\ bucket[Undone(u).id] = Undone(u).build
        /\ ToPkg(u, "undo_look")
     \/ /\ Fine /\ bucket[Undone(u).id] # Undone(u).build
        /\ NextUndo(u, uploads[u].undo)
     \/ Fault /\ NextUndo(u, "partial")
  /\ StoresKept /\ UNCHANGED before

\* ... and nobody has a row for it.
UndoLook(u) ==
  /\ AtPkg(u, "undo_look")
  /\ \/ Fine /\ Undone(u).id \notin declared /\ ToPkg(u, "undo_package")
     \/ Fine /\ Undone(u).id \in declared /\ NextUndo(u, uploads[u].undo)
     \/ Fault /\ NextUndo(u, "partial")
  /\ StoresKept /\ UNCHANGED before

UndoPackage(u) ==
  LET pkg == Undone(u) IN
  /\ AtPkg(u, "undo_package")
  /\ \/ /\ Fine /\ Wrote(u)
        /\ bucket' = [bucket EXCEPT ![pkg.id] =
                        IF "existed" \in pkg.marks THEN pkg.previous ELSE "none"]
        /\ NextUndo(u, uploads[u].undo)
     \/ /\ Fault /\ NextUndo(u, "partial") /\ UNCHANGED <<bucket, mixed>>
  /\ UNCHANGED <<media, declared, before>>

-----------------------------------------------------------------------------
\* The uploads a client may send: one package, or a bundle of two.
Bundles ==
  LET one == {Prepared(i, b) : i \in PackageIds, b \in Builds} IN
  {<<x>> : x \in one} \cup {<<p[1], p[2]>> : p \in one \X one}

PkgNext ==
  \E u \in Uploaders :
    \/ AtPkg(u, "idle") /\ \E pkgs \in Bundles : Upload(u, pkgs)
    \/ PersistExists(u) \/ PersistGet(u) \/ RemapAssets(u) \/ PersistSave(u)
    \/ PersistLook(u) \/ PersistCreate(u) \/ PersistAgain(u)
    \/ UndoAssets(u) \/ UndoRow(u) \/ UndoGet(u) \/ UndoLook(u)
    \/ UndoPackage(u)

PkgSpec == PkgInit /\ [][PkgNext]_pkgVars

-----------------------------------------------------------------------------
\* No other request has been served since u started.
Lone(u) == \A v \in Uploaders \ {u} : AtPkg(v, "idle") \/ v \in before[u].over

\* What a rollback does not put back: the overwritten package of a plugin that was declared
\* before, and one the bundle had twice.  There the rollback of the second stops at the row
\* the first has inserted, and that of the first at bytes that are not its own
\* (bytes.Equal).
Exempt(b) == b.declared \cup b.twice

\* A request that answered with an error, and was served while no other was, leaves the
\* declarations as it found them, and the package bucket but for those exempt above,
\* however far its bundle had come, unless a call of the rollback itself failed.  (The
\* media bucket is not restored: see the README.)
FailedUploadLeavesNothing ==
  \A u \in Uploaders :
    AtPkg(u, "ended") /\ uploads[u].answer = "failure" /\ uploads[u].undo = "whole" /\ Lone(u)
    => /\ declared = before[u].declared
       /\ \A i \in PackageIds \ Exempt(before[u]) : bucket[i] = before[u].bucket[i]

\* A request that failed has overlapped another.
Raced == mixed /\ \E u \in Uploaders : uploads[u].answer = "failure"

\* The package of a declared plugin is missing only when a request that
\* failed overlapped another: its rollback looks for a row and removes the
\* package in two calls, and the row may be inserted between them.
DeclaredIsStored == \A i \in declared : bucket[i] = "none" => Raced

\* A package whose upload was answered with success stays declared, whatever
\* fails later, except when an overlapping request had inserted the row and
\* takes it back in its rollback.
SuccessIsDeclared ==
  \A u \in Uploaders :
    uploads[u].answer = "success"
      => \A k \in DOMAIN uploads[u].kept :
           uploads[u].kept[k].id \in declared \/ Raced

\* Every icon a declared plugin refers to can be fetched, as long as no
\* request was rolled back: assets are named by their content, and a rollback
\* deletes those it uploaded although another plugin may share them.
IconsServed ==
  \A i \in declared :
    \/ AssetsOf[i] \subseteq media
    \/ \E u \in Uploaders : uploads[u].answer = "failure"

-----------------------------------------------------------------------------
(* The inductive invariant *)

Persisting == {"exists", "get", "remap", "save", "look", "create", "again"}
Undoing == {"undo_assets", "undo_row", "undo_get", "undo_look", "undo_package"}
PackageShape == [id : PackageIds, build : Builds, assets : SUBSET Assets,
                 marks : SUBSET {"existed", "saved", "created"},
                 previous : Builds \cup {"none"}]
UploadShape == [pc : {"idle", "ended"} \cup Persisting \cup Undoing,
                todo : Seq(PackageShape), kept : Seq(PackageShape),
                answer : {"none", "success", "failure"}, undo : {"whole", "partial"}]
BeforeShape == [bucket : [PackageIds -> Builds \cup {"none"}],
                declared : SUBSET PackageIds, twice : SUBSET PackageIds,
                over : SUBSET Uploaders]

PkgShape ==
  /\ media \subseteq Assets /\ declared \subseteq PackageIds
  /\ bucket \in [PackageIds -> Builds \cup {"none"}]
  /\ uploads \in [Uploaders -> UploadShape]
  /\ pkgFaults \in 0..MaxFaults /\ mixed \in BOOLEAN
  /\ before \in [Uploaders -> BeforeShape]

Members(s) == {s[k] : k \in DOMAIN s}

\* What the current package of a request has been through.
HeadKnows(pc, p) ==
  /\ pc \in {"exists", "get"} => p.marks = {} /\ p.assets = {}
  /\ pc \in {"remap", "save"} => p.marks \subseteq {"existed"}
  /\ pc \in {"look", "create", "again"} => "saved" \in p.marks /\ "created" \notin p.marks
  /\ pc \in {"save", "look", "create", "again"} => p.assets = AssetsOf[p.id]

\* What a request holds at each point: the packages after the current one are as
\* PreparePackage left them, and the one that failed, which is rolled back first, has
\* inserted no row.
RequestKnows(r) ==
  /\ Len(r.todo) + Len(r.kept) <= 2
  /\ \A q \in Members(r.kept) : "created" \in q.marks => "saved" \in q.marks
  /\ r.pc \in Persisting =>
       /\ r.todo # <<>> /\ r.answer = "none" /\ r.undo = "whole"
       /\ HeadKnows(r.pc, Head(r.todo))
       /\ \A p \in Members(Tail(r.todo)) : p.marks = {} /\ p.assets = {}
  /\ r.pc \in Undoing => r.todo = <<>> /\ r.kept # <<>> /\ r.answer = "failure"
  /\ r.pc \in Undoing /\ Tail(r.kept) # <<>> => "created" \notin Head(r.kept).marks
  /\ r.pc = "undo_row" => "created" \in Head(r.kept).marks
  /\ r.pc \in {"undo_get", "undo_look", "undo_package"} => "saved" \in Head(r.kept).marks
  /\ r.pc = "idle" => r = Resting_
  /\ r.pc = "ended" => r.todo = <<>> /\ r.answer # "none"
  /\ r.pc = "ended" /\ r.answer = "failure" => r.kept = <<>>

\* As long as no request has failed the icons uploaded so far are there.
IconsKnown ==
  \A u \in Uploaders :
    uploads[u].pc \in Persisting =>
      Head_(u).assets \subseteq media \/ \E v \in Uploaders : uploads[v].answer = "failure"

\* The package of a request about to insert the row is stored, and nobody has a row for
\* a package about to be deleted.
StoredKnown ==
  \A u \in Uploaders :
    /\ uploads[u].pc \in {"look", "create", "again"} => bucket[Head_(u).id] # "none" \/ Raced
    /\ uploads[u].pc = "undo_package" => Undone(u).id \notin declared \/ mixed

\* The packages a request has persisted, and will not roll back as things are.
Stands(r) == IF r.pc \in Persisting \/ r.answer = "success" THEN Members(r.kept) ELSE {}

RowsKnown == \A u \in Uploaders : \A p \in Stands(uploads[u]) : p.id \in declared \/ Raced

\* Two requests under way that have both written have overlapped, and so have two of
\* which one counts on the row the other has inserted.
SavedOf(r) == {p \in Members(r.todo) \cup Members(r.kept) : "saved" \in p.marks}
HasSaved(r) == r.pc \notin {"idle", "ended"} /\ SavedOf(r) # {}

OverlapKnown ==
  \A u, v \in Uploaders : u # v /\ ~mixed =>
    /\ ~(HasSaved(uploads[u]) /\ HasSaved(uploads[v]))
    /\ Serving(v) => \A p \in Stands(uploads[u]), q \in Members(uploads[v].kept) :
                       "created" \in q.marks => p.id # q.id

OverKnown == \A u \in Uploaders : \A v \in before[u].over : AtPkg(v, "ended")

\* What the rollback of a package leaves in the bucket.
Restored(p) == IF "existed" \in p.marks THEN p.previous ELSE "none"

\* The rows a request has inserted and not yet deleted.
RowsOf(r) ==
  {p.id : p \in {q \in Members(IF r.pc \in {"undo_get", "undo_look", "undo_package"}
                               THEN Tail(r.kept) ELSE r.kept) : "created" \in q.marks}}

\* The package being persisted or rolled back, and the others the request may still touch.
Current(r) == IF r.pc \in Persisting THEN Head(r.todo) ELSE Head(r.kept)
Others(r) == CASE r.pc \in Persisting -> Members(Tail(r.todo)) \cup Members(r.kept)
               [] r.pc \in Undoing -> Members(Tail(r.kept))
               [] OTHER -> {}

\* How rows and stored differ from what a request found that has been alone since b.
Differ(r, b, rows, stored) ==
  /\ rows = b.declared \cup RowsOf(r) /\ RowsOf(r) \cap b.declared = {}
  /\ \A p \in SavedOf(r) :
       p.id \notin Exempt(b) => stored[p.id] = p.build /\ Restored(p) = b.bucket[p.id]
  /\ \A i \in PackageIds \ Exempt(b) : stored[i] = b.bucket[i] \/ \E p \in SavedOf(r) : p.id = i
  /\ r.pc \in {"remap", "save"} => Restored(Head(r.todo)) = stored[Head(r.todo).id]
  /\ \A o \in Others(r) : o.id = Current(r).id => o.id \in b.twice

LoneKnows ==
  \A u \in Uploaders :
    ~AtPkg(u, "idle") /\ uploads[u].undo = "whole" /\ Lone(u)
      => Differ(uploads[u], before[u], declared, bucket)

PkgIInv ==
  /\ PkgShape /\ (\A u \in Uploaders : RequestKnows(uploads[u]))
  /\ IconsKnown /\ IconsServed /\ StoredKnown /\ DeclaredIsStored
  /\ RowsKnown /\ OverlapKnown /\ OverKnown /\ LoneKnows
=============================================================================
