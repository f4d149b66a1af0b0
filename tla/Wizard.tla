------------------------------ MODULE Wizard ------------------------------
(***************************************************************************)
(* The command line tool that creates a plugin project and edits its       *)
(* permissions (cmd/commandline/plugin): five sub menus, each with its own *)
(* cursor, that get one key at a time, and createPlugin, which writes the  *)
(* project file by file.  A text is abstracted to "" (empty), "bad" (does  *)
(* not match its rule) or "ok", and typing a text to one step.             *)
(***************************************************************************)
EXTENDS Integers, Sequences, SequencesExt

CONSTANTS
    WizCategories,    \* categories offered (a subset of AllCategories)
    ModelGrants,      \* permissions under model.enabled, in order
    ReadmeLanguages,  \* languages of readmes beside English, in order
    StorageSizes      \* sizes one may type or pass, as ParseUint reads them

VARIABLES
    started,    \* how: "no", "init", "flags", "quick" or "edit"
    menu,       \* the current sub menu, or "create", "created", "failed", "left", "saved"
    prof,       \* profile: [cursor, section, text, i18n, chosen]
    lang,       \* language: cursor
    cat,        \* category: the one under the cursor
    perm,       \* permission: [cursor, tool, model, app, storage, endpoint, editor, focus]
    ver,        \* versionRequire: the text
    disk,       \* the files of the project that exist
    given       \* history: the storage size that was asked for last

wizVars == <<started, menu, prof, lang, cat, perm, ver, disk, given>>

Texts == {"", "bad", "ok"}
NoSize == -1              \* no storage permission
DefaultSize == 1048576
ModelKinds == {"llm", "text-embedding", "speech2text", "moderation", "rerank", "tts"}
AllCategories == {"tool", "extension", "agent-strategy", "datasource", "trigger"} \cup ModelKinds

\* What is assumed of the constants.
WizAssumption ==
    /\ ModelGrants \in Seq(STRING) /\ ReadmeLanguages \in Seq(STRING)
    /\ StorageSizes \subseteq Nat /\ WizCategories \subseteq AllCategories
    /\ "storage.size" \notin ToSet(ModelGrants)

permissionKeySeq ==
    <<"tool.enabled", "model.enabled">> \o ModelGrants \o
    <<"app.enabled", "storage.enabled", "storage.size", "endpoint.enabled">>
LastKey == Len(permissionKeySeq)

NewProfile == [cursor |-> 0, section |-> FALSE, text |-> <<"", "", "", "">>, i18n |-> FALSE, chosen |-> {}]
NewPermission == [cursor |-> 1, tool |-> FALSE, model |-> <<>>, app |-> FALSE, storage |-> NoSize,
                  endpoint |-> FALSE, editor |-> NoSize, focus |-> FALSE]

WizInit ==
    /\ started = "no" /\ menu = "profile"
    /\ prof = NewProfile /\ lang = 0 /\ cat = "tool" /\ perm = NewPermission /\ ver = ""
    /\ disk = {} /\ given = NoSize

---------------------------------------------------------------------------
(* Starting: InitPlugin, InitPluginWithFlags with or without quick mode,   *)
(* EditPermission.                                                         *)

\* Quick mode checks the texts and goes on to createPlugin; otherwise the flags only fill
\* in the menus.  The version is not checked, the size editor is left empty; the other
\* permissions one may pass are those that editing reaches.
WithFlags(quick, text, category, size) ==
    /\ quick => text = <<"ok", "ok", "ok", "">>
    /\ prof' = [prof EXCEPT !.text = text]
    /\ cat' = category
    /\ perm' = [perm EXCEPT !.storage = size]
    /\ given' = size
    /\ started' = IF quick THEN "quick" ELSE "flags"
    /\ menu' = IF quick THEN "create" ELSE "profile"
    /\ ver' \in {"", "bad"}
    /\ UNCHANGED <<lang, disk>>

Start ==
    /\ started = "no"
    /\ \/ started' = "init" /\ UNCHANGED <<menu, prof, lang, cat, perm, ver, disk, given>>
       \/ \E quick \in BOOLEAN, name \in Texts, category \in WizCategories, size \in StorageSizes \cup {NoSize} :
            WithFlags(quick, <<name, "ok", "ok", "">>, category, size)
       \/ \E size \in StorageSizes \cup {NoSize} :      \* EditPermission: of the manifest
            /\ started' = "edit" /\ menu' = "permission"
            /\ perm' = [perm EXCEPT !.storage = size] /\ given' = size
            /\ UNCHANGED <<prof, lang, cat, ver, disk>>

\* ctrl+c: nothing is created; but EditPermission saves whatever it has.
CtrlC ==
    /\ started # "no" /\ menu \in {"profile", "language", "category", "permission", "version_require"}
    /\ menu' = IF started = "edit" THEN "saved" ELSE "left"
    /\ UNCHANGED <<started, prof, lang, cat, perm, ver, disk, given>>

---------------------------------------------------------------------------
(* profile                                                                 *)

AtMenu(m) == menu = m /\ started # "no"
KeepOthers == UNCHANGED <<started, lang, cat, perm, ver, disk, given>>
OnProfile == AtMenu("profile") /\ KeepOthers
Languages_ == Len(ReadmeLanguages) + 1        \* the first is English, required

checkRule ==
    CASE prof.cursor = 0 -> prof.text[1] = "ok"
      [] prof.cursor = 1 -> prof.text[2] = "ok"
      [] prof.cursor = 2 -> prof.text[3] # ""
      [] OTHER -> TRUE

ProfileDown ==
    /\ OnProfile /\ UNCHANGED menu
    /\ \/ /\ prof.section
          /\ prof' = [prof EXCEPT !.cursor = IF @ + 1 < Languages_ THEN @ + 1 ELSE @]
       \/ /\ ~prof.section /\ checkRule
          /\ prof' = IF prof.cursor < 4 THEN [prof EXCEPT !.cursor = @ + 1]
                     ELSE [prof EXCEPT !.cursor = 0, !.section = prof.i18n]

ProfileUp ==
    /\ OnProfile /\ UNCHANGED menu
    /\ \/ /\ prof.section
          /\ prof' = IF prof.cursor > 0 THEN [prof EXCEPT !.cursor = @ - 1]
                     ELSE [prof EXCEPT !.section = FALSE, !.cursor = 4]
       \/ /\ ~prof.section /\ checkRule
          /\ prof' = IF prof.cursor > 0 THEN [prof EXCEPT !.cursor = @ - 1]
                     ELSE IF prof.i18n THEN [prof EXCEPT !.section = TRUE, !.cursor = Languages_ - 1]
                     ELSE [prof EXCEPT !.cursor = 4]

\* The check box: switching it off forgets the languages.
Toggled == [prof EXCEPT !.i18n = ~@, !.chosen = IF prof.i18n THEN {} ELSE @]

ToggleProfile ==
    /\ OnProfile /\ UNCHANGED menu
    /\ \/ ~prof.section /\ prof.cursor = 4 /\ prof' = Toggled
       \/ /\ prof.section /\ prof.cursor > 0
          /\ LET l == ReadmeLanguages[prof.cursor] IN
             prof' = [prof EXCEPT !.chosen = IF l \in @ THEN @ \ {l} ELSE @ \cup {l}]

ProfileEnter ==
    /\ OnProfile
    /\ \/ prof.section /\ menu' = "language" /\ UNCHANGED prof
       \/ ~prof.section /\ prof.cursor = 4 /\ prof' = Toggled /\ UNCHANGED menu
       \/ ~prof.section /\ prof.cursor <= 3 /\ checkRule
            /\ prof' = [prof EXCEPT !.cursor = @ + 1] /\ UNCHANGED menu

\* Typing goes to the input under the cursor; the repository is not checked.
TypeText ==
    /\ OnProfile /\ UNCHANGED menu
    /\ ~prof.section /\ prof.cursor <= 2
    /\ \E t \in (IF prof.cursor = 2 THEN {"", "ok"} ELSE Texts) : prof' = [prof EXCEPT !.text[prof.cursor + 1] = t]

---------------------------------------------------------------------------
(* language, category, versionRequire                                      *)

\* Only the first language is supported: Enter on another one moves back.
LanguageKey ==
    /\ AtMenu("language")
    /\ \/ lang' \in {0, 1} /\ UNCHANGED menu
       \/ lang' = 0 /\ menu' = IF lang = 0 THEN "category" ELSE "language"
    /\ UNCHANGED <<started, prof, cat, perm, ver, disk, given>>

\* model.Update on NEXT of the category: an agent strategy replaces the
\* permissions by the tool and LLM invocation it needs.
CategoryKey ==
    /\ AtMenu("category")
    /\ \/ cat' \in WizCategories /\ UNCHANGED <<menu, perm, given>>
       \/ /\ UNCHANGED cat /\ menu' = "permission"
          /\ IF cat = "agent-strategy"
             THEN /\ perm' = [perm EXCEPT !.tool = TRUE, !.model = <<{"model.llm"}>>, !.app = FALSE, !.storage = NoSize, !.endpoint = FALSE]
                  /\ given' = NoSize
             ELSE UNCHANGED <<perm, given>>
    /\ UNCHANGED <<started, prof, lang, ver, disk>>

VersionKey ==
    /\ AtMenu("version_require")
    /\ \/ ver' \in Texts /\ UNCHANGED menu
       \/ UNCHANGED ver /\ ver # "bad" /\ menu' = "create"
    /\ UNCHANGED <<started, prof, lang, cat, perm, disk, given>>

---------------------------------------------------------------------------
(* permission                                                              *)

OnPermission == AtMenu("permission") /\ UNCHANGED <<started, prof, lang, cat, ver, disk>>
KeyAt(p) == permissionKeySeq[p.cursor]

\* updateStorageSize: on the size, the editor shows it; elsewhere the size is read from the
\* editor.  The editor holds what ParseUint makes of its text: 0 of what is no number (an
\* editor never filled too), the largest number of one that is out of range.
updateStorageSize(p) ==
    IF p.storage = NoSize THEN [p EXCEPT !.focus = @ /\ KeyAt(p) = "storage.size"]
    ELSE IF KeyAt(p) = "storage.size" THEN [p EXCEPT !.editor = p.storage, !.focus = TRUE]
    ELSE [p EXCEPT !.focus = FALSE, !.storage = IF p.editor = NoSize THEN 0 ELSE p.editor]

PermissionMove ==
    /\ OnPermission /\ UNCHANGED <<menu, given>>
    /\ \E c \in {IF perm.cursor = LastKey THEN 1 ELSE perm.cursor + 1,
                 IF perm.cursor = 1 THEN LastKey ELSE perm.cursor - 1} :
          perm' = updateStorageSize([perm EXCEPT !.cursor = c])

\* Enter on the last key finishes; EditPermission then saves the manifest.
PermissionEnter ==
    /\ OnPermission /\ UNCHANGED given
    /\ KeyAt(perm) = "endpoint.enabled"
    /\ perm' = updateStorageSize([perm EXCEPT !.cursor = 1])
    /\ menu' = IF started = "edit" THEN "saved" ELSE "version_require"

\* edit: any key of the models switches them on first.
EditModel(p) ==
    IF KeyAt(p) = "model.enabled" THEN [p EXCEPT !.model = IF @ = <<>> THEN <<{}>> ELSE <<>>]
    ELSE LET grants == IF p.model = <<>> THEN {} ELSE p.model[1] IN
         [p EXCEPT !.model = <<IF KeyAt(p) \in grants THEN grants \ {KeyAt(p)} ELSE grants \cup {KeyAt(p)}>>]

PermissionEdit ==
    /\ OnPermission /\ UNCHANGED menu
    /\ perm' = CASE KeyAt(perm) = "tool.enabled" -> [perm EXCEPT !.tool = ~@]
                 [] KeyAt(perm) = "app.enabled" -> [perm EXCEPT !.app = ~@]
                 [] KeyAt(perm) = "endpoint.enabled" -> [perm EXCEPT !.endpoint = ~@]
                 [] KeyAt(perm) = "storage.size" -> perm
                 [] KeyAt(perm) = "storage.enabled" ->
                      IF perm.storage # NoSize THEN [perm EXCEPT !.storage = NoSize]
                      ELSE [perm EXCEPT !.storage = DefaultSize, !.editor = DefaultSize]
                 [] OTHER -> EditModel(perm)
    /\ given' = IF KeyAt(perm) = "storage.enabled" THEN perm'.storage ELSE given

\* Typing goes to the size editor while it is focused.
TypeSize ==
    /\ OnPermission /\ UNCHANGED menu
    /\ KeyAt(perm) = "storage.size" /\ perm.focus
    /\ \E size \in StorageSizes \cup {0} : perm' = [perm EXCEPT !.editor = size] /\ given' = size

---------------------------------------------------------------------------
(* createPlugin                                                            *)

\* The provider file that the manifest names.
ManifestNames(c) == IF c = "extension" THEN "group/x.yaml" ELSE "provider/x.yaml"

\* createPythonEnvironment, the files of a category.
ToolFiles == <<"tools/x.py", "tools/x.yaml", "provider/x.py", "provider/x.yaml">>
EndpointFiles == <<"group/x.yaml", "endpoints/x.yaml", "endpoints/x.py">>
ModelFiles == <<"provider/x.py", "provider/x.yaml", "models/x.yaml", "models/x.py">>
StrategyFiles == <<"provider/x.yaml", "strategies/x.yaml", "strategies/x.py">>
DatasourceFiles == <<"datasources/x.py", "datasources/x.yaml">>
TriggerFiles == <<"provider/x.py", "provider/x.yaml", "events/x.yaml", "events/x.py">>

CategoryFiles(c) ==
    CASE c = "tool" -> ToolFiles
      [] c = "extension" -> EndpointFiles
      [] c \in ModelKinds -> ModelFiles
      [] c = "agent-strategy" -> StrategyFiles
      [] c = "datasource" -> DatasourceFiles
      [] c = "trigger" -> TriggerFiles

\* Mutant: the provider of a model is not written.
PythonFiles_NoProvider(c) == SelectSeq(CategoryFiles(c), LAMBDA f : c \in ModelKinds => f # "provider/x.yaml")

PythonFiles(c) ==
    <<"GUIDE.md", "main.py", "requirements.txt", "pyproject.toml", ".difyignore", ".gitignore">> \o CategoryFiles(c)

CommonFiles == <<"manifest.yaml", "_assets/icon.svg", "_assets/icon-dark.svg", "README.md">>
ServiceFiles == <<".env.example", "PRIVACY.md", "plugin-publish.yml">>
ReadmeFiles == IF prof.i18n THEN prof.chosen ELSE {}

\* The order of writing; of the readmes only those asked for are written.
Unasked == ToSet(ReadmeLanguages) \ ReadmeFiles
ProjectFiles == CommonFiles \o ReadmeLanguages \o ServiceFiles \o PythonFiles(cat)
Wanted == ToSet(CommonFiles) \cup ReadmeFiles \cup ToSet(ServiceFiles) \cup ToSet(PythonFiles(cat))

\* One writeFile after the other; the deferred clear removes the directory unless everything
\* was written.  (RemoveAll also takes what was there under the name before: disk only has
\* the files of this run.)
WriteNext ==
    /\ menu = "create"
    /\ \E files \in {ProjectFiles}, past \in {disk \cup Unasked} :
         \E i \in DOMAIN files :
           /\ files[i] \notin past
           /\ \A j \in 1..(i - 1) : files[j] \in past
           /\ disk' = disk \cup {files[i]}
    /\ menu' = IF Wanted \subseteq disk' THEN "created" ELSE menu
    /\ UNCHANGED <<started, prof, lang, cat, perm, ver, given>>

WriteFails ==
    /\ menu = "create"
    /\ menu' = "failed" /\ disk' = {}
    /\ UNCHANGED <<started, prof, lang, cat, perm, ver, given>>

WizNext ==
    \/ Start \/ CtrlC
    \/ ProfileDown \/ ProfileUp \/ ToggleProfile \/ ProfileEnter \/ TypeText
    \/ LanguageKey \/ CategoryKey \/ VersionKey
    \/ PermissionMove \/ PermissionEnter \/ PermissionEdit \/ TypeSize
    \/ WriteNext \/ WriteFails

WizSpec == WizInit /\ [][WizNext]_wizVars

---------------------------------------------------------------------------
(* Properties *)

\* The type of the state.
WizTypeOK ==
    /\ started \in {"no", "init", "flags", "quick", "edit"}
    /\ menu \in {"profile", "language", "category", "permission", "version_require",
                 "create", "created", "failed", "left", "saved"}
    /\ prof.cursor \in 0..(IF prof.section THEN Len(ReadmeLanguages) ELSE 4)
    /\ prof.text \in [1..4 -> Texts] /\ {prof.section, prof.i18n} \subseteq BOOLEAN
    /\ prof.chosen \subseteq ToSet(ReadmeLanguages) /\ (~prof.i18n => prof.chosen = {})
    /\ lang \in {0, 1} /\ cat \in WizCategories \cup {"tool"} /\ ver \in Texts
    /\ perm.cursor \in 1..LastKey /\ Len(perm.model) <= 1
    /\ perm.storage \in StorageSizes \cup {0, DefaultSize, NoSize}

PastProfile == menu \in {"language", "category", "permission", "version_require", "create", "created", "failed"}

\* profile.Update: a project is created only under a valid name, which is also the
\* directory that a failed creation removes; author and description have no such
\* guarantee, since the cursor wraps around from the name to the check box.
CreatedUnderValidName == PastProfile /\ started # "edit" => prof.text[1] = "ok"

\* profile.Update: Enter on the check box only switches it, so the profile is left through
\* the list of languages and every interactively created project has the multilingual
\* readme switched on.
LeftThroughLanguages == PastProfile /\ started \in {"init", "flags"} => prof.i18n

\* createPlugin and createPythonEnvironment: a created project contains the provider file
\* that its manifest names, whatever the category, except a datasource.
CreatedHasProvider ==
    menu = "created" /\ cat # "datasource" => ManifestNames(cat) \in disk

\* createPlugin, the deferred clear: what was not created leaves no file behind.
UnfinishedLeavesNothing == menu \in {"failed", "left", "saved"} => disk = {}

\* permission.updateStorageSize: the storage size that a freshly started wizard puts into
\* the manifest is the one that was set or typed last.  (With flags and in EditPermission
\* the editor starts empty and the first move of the cursor sets the size to 0.)
StorageSizeAsGiven ==
    started = "init" /\ menu \in {"version_require", "create", "created"} => perm.storage = given

---------------------------------------------------------------------------
(* The inductive invariant *)

ProfileShape ==
    [cursor : Nat, section : BOOLEAN, text : [1..4 -> Texts], i18n : BOOLEAN,
     chosen : SUBSET ToSet(ReadmeLanguages)]

Grants == ToSet(permissionKeySeq) \cup {"model.llm"}
Sizes_ == StorageSizes \cup {0, DefaultSize, NoSize}

PermissionShape ==
    [cursor : 1..LastKey, tool : BOOLEAN, model : Seq(SUBSET Grants),
     app : BOOLEAN, storage : Sizes_, endpoint : BOOLEAN, editor : Sizes_, focus : BOOLEAN]

\* The cursor leaves the name only when it is valid, the list of languages is reached only
\* with the readmes switched on, and the profile is left only through that list.
ProfileIInv ==
    /\ prof \in ProfileShape /\ prof.cursor \in 0..(IF prof.section THEN Len(ReadmeLanguages) ELSE 4)
    /\ ~prof.i18n => prof.chosen = {}
    /\ prof.section \/ prof.cursor > 0 => prof.text[1] = "ok"
    /\ prof.section => prof.i18n
    /\ CreatedUnderValidName /\ LeftThroughLanguages

\* Until the permissions are reached the cursor is on the first and the editor is closed.
BeforePermission == menu \in {"profile", "language", "category"} => perm.cursor = 1 /\ ~perm.focus

\* In a wizard started afresh the editor holds the size given last, which is also the size
\* of the permission except while the editor is open; it is open only for a permission.
SizeKnows ==
    started = "init" =>
      /\ perm.focus => KeyAt(perm) = "storage.size" /\ perm.storage # NoSize
      /\ perm.storage = NoSize => given = NoSize
      /\ perm.storage # NoSize => /\ perm.editor = given /\ given # NoSize
                                  /\ KeyAt(perm) # "storage.size" => perm.storage = given

PermissionIInv ==
    /\ perm \in PermissionShape /\ Len(perm.model) <= 1 /\ given \in Sizes_
    /\ BeforePermission /\ SizeKnows /\ StorageSizeAsGiven

\* What has not been started is new; files are there only while they are created and after.
MenuIInv ==
    /\ started \in {"no", "init", "flags", "quick", "edit"}
    /\ menu \in {"profile", "language", "category", "permission", "version_require",
                 "create", "created", "failed", "left", "saved"}
    /\ lang \in {0, 1} /\ cat \in WizCategories \cup {"tool"} /\ ver \in Texts
    /\ started = "no" =>
         menu = "profile" /\ prof = NewProfile /\ perm = NewPermission /\ given = NoSize
    /\ menu \notin {"create", "created"} => disk = {}
    /\ menu = "created" => Wanted \subseteq disk

WizIInv == ProfileIInv /\ PermissionIInv /\ MenuIInv
============================================================================
