------------------------------ MODULE Difypkg ------------------------------
(***************************************************************************)
(* The plugin package file, from the author's directory to the daemon:     *)
(* Packager.Pack (pkg/plugin_packager/packager), the signer                *)
(* (pkg/plugin_packager/signer/withkey), and the two decoders that read a  *)
(* plugin, FSPluginDecoder over a directory and ZipPluginDecoder over a    *)
(* package, with PluginDecoderHelper, which both embed.                    *)
(*                                                                         *)
(* A decoder is what the PluginDecoder interface shows of it (a "view"):   *)
(* the paths Walk visits, in order, and what ReadFile answers.  For a      *)
(* directory the two differ (Walk leaves out what .difyignore excludes,    *)
(* ReadFile does not); for a package they differ when an entry occurs      *)
(* twice (Walk visits both, ReadFile answers the first).  The hash of a    *)
(* content is the content: SHA-256 is taken to be free of collisions.      *)
(***************************************************************************)
EXTENDS Naturals, Sequences, FiniteSets, SequencesExt

CONSTANTS
    PluginKinds,      \* kinds of provider a plugin declares
    Official,         \* the bundled key
    OtherKeys,        \* keys of third parties
    Categories,       \* authorized categories
    SizeLimits,       \* limits given to Pack
    NewNames,         \* bound: the names an entry of a package may be given on its way
    MaxSigns          \* bound: signatures of one package

VARIABLES
    src,        \* the author's directory: [kind, files, ignored, dotted, uv]
    archive,    \* the package file: [entries, comment], or NoArchive
    signs,      \* what was signed so far, in order: [key, category, before, reads, contents]
    edited,     \* history: "no", or how the package was changed after it was signed
    opened      \* the ZipPluginDecoder made of it, or NotOpened

dpVars == <<src, archive, signs, edited, opened>>

Manifest_ == "manifest.yaml"
Provider_ == "provider.yaml"
Child_ == "child.yaml"
Position_ == "llm_position.yaml"
PluginIcon == "_assets/icon.svg"
ProviderIcon == "_assets/provider.svg"
Readme_ == "README.md"
ReadmeZh == "readme/README_zh_Hans.md"
RequirementsFile == "requirements.txt"
VerificationFile == ".verification.dify.json"

\* The paths in the order of sort.Slice(files, Path <); WalkDir visits these
\* in the same order.
PathOrder == <<VerificationFile, Readme_, PluginIcon, ProviderIcon, Child_,
               Position_, Manifest_, Provider_, ReadmeZh, RequirementsFile>>
Paths == ToSet(PathOrder)
Rank(p) == CHOOSE k \in DOMAIN PathOrder : PathOrder[k] = p

\* The paths of S in that order.
Sorted(S) ==
    [i \in 1..Cardinality(S) |-> CHOOSE p \in S : Cardinality({q \in S : Rank(q) < Rank(p)}) = i - 1]

\* What is assumed of the constants.
DpAssumption ==
    /\ MaxSigns \in Nat /\ NewNames \subseteq Paths
    /\ SizeLimits \subseteq Nat /\ SizeLimits # {}
    /\ Categories # {} /\ "none" \notin Categories

AssetPaths == {PluginIcon, ProviderIcon}
Contents == {"ok", "bad", "edited", "generated"} \cup Categories

NoArchive == [entries |-> <<>>, comment |-> <<>>]
NotOpened == [state |-> "no"]
None_ == "none"

---------------------------------------------------------------------------
(* The two implementations of the interface.                               *)

\* FSPluginDecoder: Walk in lexical order without the ignored paths; ReadFile,
\* Stat and ReadDir know nothing of them.  ReadDir fails without the directory.
FsView(s) ==
    [walk |-> Sorted(DOMAIN s.files \ s.ignored),
     read |-> s.files, fs |-> TRUE, comment |-> <<>>, kind |-> s.kind, dotted |-> s.dotted]

\* ReadFile of an archive (archive/zip): the first entry of that name.
FirstOf(es, p) == CHOOSE i \in DOMAIN es : es[i].path = p /\ \A j \in 1..(i - 1) : es[j].path # p
ReadFile(es) == [p \in {es[i].path : i \in DOMAIN es} |-> es[FirstOf(es, p)].content]

\* ZipPluginDecoder over the package a of the plugin s.
ZipView(a, s) ==
    [walk |-> [i \in DOMAIN a.entries |-> a.entries[i].path], read |-> ReadFile(a.entries),
     fs |-> FALSE, comment |-> a.comment, kind |-> s.kind, dotted |-> s.dotted]

ReadDir(v, dir) == dir \cap DOMAIN v.read
DirMissing(v, dir) == v.fs /\ ReadDir(v, dir) = {}

---------------------------------------------------------------------------
(* PluginDecoderHelper.                                                    *)

\* A YAML file that is read by name must be there and parse.  A directory's ReadFile joins,
\* and so cleans, the name it is declared by ("./provider.yaml"); a package's refuses one
\* that is not clean.
Loads(v, p) == p \in DOMAIN v.read /\ v.read[p] # "bad" /\ (p \in v.dotted => v.fs)

\* Manifest: the manifest, the provider file it names, and what the provider names.

\* The position files of a model provider are read by name.
LoadPositions(v) == Loads(v, Position_)

\* The models are the walked files that a pattern matches, position files left out; what
\* Walk visits has a clean path, which a pattern that is not clean never matches.
Matched(v) == ({Child_} \cap ToSet(v.walk)) \ v.dotted
LoadModels(v) == \A p \in Matched(v) : Loads(v, p)

\* Every other kind (tools, endpoints, strategies, data sources, events) reads its
\* children by name.
LoadChildren(v) == Loads(v, Child_)

LoadProvider(v) ==
    /\ Loads(v, Provider_)
    /\ IF v.kind = "model" THEN LoadPositions(v) /\ LoadModels(v) ELSE LoadChildren(v)

ManifestLoads(v) == Loads(v, Manifest_) /\ LoadProvider(v)

\* The children the declaration ends up with.
DeclaredChildren(v) == IF v.kind = "model" THEN Matched(v) ELSE {Child_}

\* Assets: what is under _assets.
AssetsOfView(v) == [p \in ReadDir(v, AssetPaths) |-> v.read[p]]

\* CheckAssetsValid: the icon of the plugin, and that of the provider for the
\* four kinds whose icon is looked at, as they are written in the declaration.
IconsDeclared(kind) == {PluginIcon} \cup (IF kind \in {"model", "tool", "trigger", "datasource"} THEN {ProviderIcon} ELSE {})
AssetsValid(v) ==
    /\ ManifestLoads(v)
    /\ ~DirMissing(v, AssetPaths)
    /\ IconsDeclared(v.kind) \subseteq DOMAIN AssetsOfView(v) \ v.dotted

\* CalculateChecksum: over the map from walked paths to contents.
ChecksumOf(v) == [p \in ToSet(v.walk) |-> v.read[p]]

\* AvailableI18nReadme: README.md must be there, the folder need not.
Readmes(v) ==
    IF Readme_ \notin DOMAIN v.read THEN {}
    ELSE {<<"en_US", v.read[Readme_]>>} \cup {<<"zh_Hans", v.read[p]>> : p \in ReadDir(v, {ReadmeZh})}

\* The bytes a signature is made of and checked against: the hash of every
\* walked file, read by its name, then the time of the signature.
SignedData(v, time) == Append([i \in DOMAIN v.walk |-> v.read[v.walk[i]]], time)

\* ZipPluginDecoder.decode: signature and time from the comment, the
\* verification file if there is one; a bad one is an error.
DecodeFails(v) == v.comment = <<>> \/ (VerificationFile \in DOMAIN v.read /\ v.read[VerificationFile] \notin Categories)
DecodedVerification(v) == IF VerificationFile \in DOMAIN v.read THEN v.read[VerificationFile] ELSE None_

\* VerifyPluginWithPublicKeys: one of the keys has made the signature.
VerifiesWith(v, keys) ==
    /\ ~DecodeFails(v)
    /\ v.comment[1].key \in keys
    /\ v.comment[1].data = SignedData(v, v.comment[1].time)

\* verified: with the configured keys beside the bundled one if third party
\* verification is on and names keys; a key file that cannot be read is an
\* error of the whole verification.
VerifiedBy(v, config) ==
    IF config.enabled /\ (config.keys # {} \/ config.missing)
    THEN ~config.missing /\ VerifiesWith(v, config.keys \cup {Official})
    ELSE VerifiesWith(v, {Official})

---------------------------------------------------------------------------
(* The author's side.                                                      *)

BaseFiles(kind) == {Manifest_, Provider_, Child_, PluginIcon, ProviderIcon, Readme_, ReadmeZh} \cup (IF kind = "model" THEN {Position_} ELSE {})

\* The files a declaration names.
DeclaredPaths == {Provider_, Child_, Position_, PluginIcon, ProviderIcon}

\* A directory with one flaw at most: a file is missing, does not parse, is excluded by
\* .difyignore, or is declared by a path that is not clean.  It may hold the verification file of a package it
\* was extracted from, and requirements.txt or the files of uv.
SourceWith(k, uv, extras, flaw, at) ==
    [kind |-> k, uv |-> uv, ignored |-> IF flaw = "ignored" THEN {at} ELSE {},
     dotted |-> IF flaw = "dotted" THEN {at} \cap DeclaredPaths ELSE {},
     files |-> [p \in (BaseFiles(k) \cup extras) \ (IF flaw = "missing" THEN {at} ELSE {}) |->
                  IF p = VerificationFile THEN (CHOOSE c \in Categories : TRUE)
                  ELSE IF flaw = "bad" /\ p = at THEN "bad" ELSE "ok"]]

Sources ==
    {SourceWith(k, uv, extras, flaw, at) :
     k \in PluginKinds, uv \in BOOLEAN, extras \in SUBSET {VerificationFile, RequirementsFile},
     flaw \in {"none", "missing", "bad", "ignored", "dotted"}, at \in Paths \ {VerificationFile}}

\* The directories that are tried: extras are combined with no other flaw than an
\* exclusion of requirements.txt, and the verification file with no other extra.
TriedSources ==
    {s \in Sources :
        /\ VerificationFile \in DOMAIN s.files => ~s.uv /\ RequirementsFile \notin DOMAIN s.files
        /\ s.uv \/ DOMAIN s.files \cap {VerificationFile, RequirementsFile} # {} =>
               /\ BaseFiles(s.kind) \subseteq DOMAIN s.files
               /\ \A p \in BaseFiles(s.kind) : s.files[p] = "ok"
               /\ s.ignored \subseteq {RequirementsFile} /\ s.dotted = {}}

DpInit ==
    /\ src \in TriedSources
    /\ archive = NoArchive
    /\ signs = <<>>
    /\ edited = "no"
    /\ opened = NotOpened

\* generatedFiles: requirements.txt, exported from uv.lock if the directory
\* (which Stat looks at, ignored paths included) has none of its own.
Generates(s) == s.uv /\ RequirementsFile \notin DOMAIN s.files

\* collectFiles: what Walk visits and what is generated, sorted by path.
CollectedPaths(s) ==
    (DOMAIN s.files \ s.ignored) \cup (IF Generates(s) THEN {RequirementsFile} ELSE {})
ContentOf(s, p) == IF p \in DOMAIN s.files THEN s.files[p] ELSE "generated"
Collected(s) ==
    [i \in 1..Cardinality(CollectedPaths(s)) |->
        LET p == Sorted(CollectedPaths(s))[i] IN [path |-> p, content |-> ContentOf(s, p)]]

\* NewFSPluginDecoder and Pack: the decoder loads the manifest, Validate
\* checks it and the assets, and the sum of the sizes (one per file here) must
\* not exceed the limit.  uv export may fail; then nothing is written, as after
\* every other error.
PackValid(s) == ManifestLoads(FsView(s)) /\ AssetsValid(FsView(s))

Pack(limit) ==
    /\ archive = NoArchive
    /\ PackValid(src)
    /\ Len(Collected(src)) <= limit
    /\ archive' = [entries |-> Collected(src), comment |-> <<>>]
    /\ UNCHANGED <<src, signs, edited, opened>>

\* SignPluginWithPrivateKey: opens the package as a decoder (so the manifest
\* must load), copies every entry as it reads it, puts the verification at the
\* end, and signs the hashes and the time.
SignedEntries(v, category) ==
    [i \in DOMAIN v.walk |-> [path |-> v.walk[i], content |-> v.read[v.walk[i]]]]
        \o (IF category = None_ THEN <<>> ELSE <<[path |-> VerificationFile, content |-> category]>>)

\* Mutant: the verification is added after the hashes were taken.
SigningData_NoVerification(v, category, time) == SignedData(v, time)

SigningData(v, category, time) ==
    [i \in DOMAIN v.walk |-> v.read[v.walk[i]]] \o (IF category = None_ THEN <<>> ELSE <<category>>) \o <<time>>

Sign(key, category) ==
    LET v == ZipView(archive, src)
        es == SignedEntries(v, category)
        time == Len(signs) + 1 IN
    /\ archive # NoArchive /\ opened = NotOpened /\ Len(signs) < MaxSigns
    /\ ManifestLoads(v)
    /\ archive' = [entries |-> es,
                   comment |-> <<[key |-> key, time |-> time, data |-> SigningData(v, category, time)]>>]
    /\ signs' = Append(signs, [key |-> key, category |-> category, before |-> DecodedVerification(v),
                               reads |-> v.read,
                               contents |-> [i \in DOMAIN es |-> es[i].content]])
    /\ UNCHANGED <<src, edited, opened>>

\* The file is changed by something else on its way (once): an entry's content or its name,
\* or the last entry is gone.
Edit ==
    /\ signs # <<>> /\ opened = NotOpened /\ edited = "no"
    /\ \/ /\ edited' = "changed"
          /\ \/ \E i \in DOMAIN archive.entries : archive' = [archive EXCEPT !.entries[i].content = "edited"]
             \/ archive' = [archive EXCEPT !.entries = Front(@)]
       \/ /\ edited' = "renamed"
          /\ \E i \in DOMAIN archive.entries, p \in NewNames :
               /\ archive.entries[i].path # p
               /\ archive' = [archive EXCEPT !.entries[i].path = p]
    /\ UNCHANGED <<src, signs, opened>>

---------------------------------------------------------------------------
(* The daemon's side.                                                      *)

\* newZipPluginDecoder: Manifest is loaded at once, which also fixes the
\* verified flag; Verification, Checksum and the rest answer from the bytes.
Open_(config) ==
    LET v == ZipView(archive, src)
        verified == VerifiedBy(v, config) IN
    /\ archive # NoArchive /\ opened = NotOpened
    /\ opened' = IF ~ManifestLoads(v) THEN [state |-> "error", config |-> config]
                 ELSE [state |-> "open", config |-> config, verified |-> verified,
                       verification |-> IF verified THEN DecodedVerification(v) ELSE None_]
    /\ UNCHANGED <<src, archive, signs, edited>>

\* Settings of the third party verification: off, or the keys it names, of which some may be
\* missing (it does not matter then which are not).
Configs == {c \in [enabled : BOOLEAN, keys : SUBSET OtherKeys, missing : BOOLEAN] :
                /\ c.enabled \/ (c.keys = {} /\ ~c.missing)
                /\ c.missing => c.keys = {}}

\* Every behaviour ends when the package is opened.
DpNext ==
    /\ opened = NotOpened
    /\ \/ \E limit \in SizeLimits : Pack(limit)
       \/ \E key \in OtherKeys \cup {Official}, category \in Categories \cup {None_} : Sign(key, category)
       \/ Edit
       \/ \E config \in Configs : Open_(config)

DpSpec == DpInit /\ [][DpNext]_dpVars

---------------------------------------------------------------------------
(* Properties *)

\* The type of the state.
DpTypeOK ==
    /\ src.kind \in PluginKinds /\ src.ignored \cup src.dotted \cup DOMAIN src.files \subseteq Paths
    /\ {archive.entries[i].path : i \in DOMAIN archive.entries} \subseteq Paths
    /\ {archive.entries[i].content : i \in DOMAIN archive.entries} \subseteq Contents
    /\ \E limit \in SizeLimits : Len(archive.entries) <= limit + Len(signs)
    /\ Len(archive.comment) <= 1 /\ Len(signs) <= MaxSigns /\ edited \in {"no", "changed", "renamed"}
    /\ opened.state \in {"no", "error", "open"}

Opened == opened.state = "open"
Pristine == archive # NoArchive /\ edited = "no"
TrustedBy(config) == {Official} \cup (IF config.enabled THEN config.keys ELSE {})
LastSign == signs[Len(signs)]

\* Pack and NewZipPluginDecoder: what Pack has produced can be opened, signed or not.
\* The directory is validated with reads that know nothing of .difyignore and that clean
\* the names they are given, so the exceptions are a declared file that is excluded and
\* one that is read by a name that is not clean.
ReadByName(kind) == {Provider_, IF kind = "model" THEN Position_ ELSE Child_}

PackedOpens ==
    Pristine /\ opened.state = "error" =>
        \/ src.ignored \cap {Manifest_, Provider_, Child_, Position_} # {}
        \/ src.dotted \cap ReadByName(src.kind) # {}

\* Helper methods over both decoders: the package says of the plugin what the author's
\* directory says (children, assets, readmes), and has its checksum if nothing was
\* generated and no signature has added a verification, as long as nothing is excluded.
PackageAgrees ==
    LET z == ZipView(archive, src)
        d == FsView(src) IN
    Pristine /\ Opened /\ src.ignored = {} =>
        /\ DeclaredChildren(z) = DeclaredChildren(d)
        /\ AssetsOfView(z) = AssetsOfView(d)
        /\ Readmes(z) = Readmes(d)
        /\ (~Generates(src) /\ \A i \in DOMAIN signs : signs[i].category = None_) => ChecksumOf(z) = ChecksumOf(d)

\* SignPluginWithPrivateKey and verified: a package signed last with a trusted key, and not
\* changed since, is verified, and the verification it carries is the one it was signed
\* with.  The exceptions: a configured key file that cannot be read refuses everything,
\* and a package that already carried another verification ends up with two of which the
\* first is read, so that it is never verified.
SignedIsVerified ==
    Pristine /\ Opened /\ signs # <<>> /\ LastSign.key \in TrustedBy(opened.config)
      /\ ~(opened.config.enabled /\ opened.config.missing)
      /\ (LastSign.category = None_ \/ LastSign.before \in {None_, LastSign.category})
    => /\ opened.verified
       /\ LastSign.category # None_ => opened.verification = LastSign.category

\* VerifyPluginWithPublicKeys: what is verified has, entry by entry, the contents that the
\* holder of a trusted key has signed.  Their names are not signed: only as long as no
\* entry was renamed does every file of the package read as it did when it was signed, the
\* verification apart that was added with the signature.
VerifiedIsSigned ==
    Opened /\ opened.verified =>
        \E i \in DOMAIN signs :
            /\ signs[i].key \in TrustedBy(opened.config)
            /\ LET z == ZipView(archive, src) IN
               /\ [k \in DOMAIN z.walk |-> z.read[z.walk[k]]] = signs[i].contents
               /\ edited # "renamed" =>
                    /\ DOMAIN z.read \ {VerificationFile} = DOMAIN signs[i].reads \ {VerificationFile}
                    /\ \A p \in DOMAIN signs[i].reads : z.read[p] = signs[i].reads[p]

---------------------------------------------------------------------------
(* The inductive invariant *)

SourceKnows ==
    /\ src.kind \in PluginKinds /\ src.uv \in BOOLEAN
    /\ src.ignored \cup DOMAIN src.files \subseteq Paths /\ src.dotted \subseteq DeclaredPaths
    /\ \A p \in DOMAIN src.files :
         src.files[p] \in IF p = VerificationFile THEN Categories ELSE {"ok", "bad"}

EntryShape == [path : Paths, content : Contents]
SignShape(paths) == [key : OtherKeys \cup {Official}, category : Categories \cup {None_},
                     before : Contents \cup {None_},
                     reads : UNION {[S -> Contents] : S \in SUBSET paths},
                     contents : Seq(Contents)]

ArchiveKnows ==
    /\ archive = [entries |-> archive.entries, comment |-> archive.comment]
    /\ archive.entries \in Seq(EntryShape) /\ signs \in Seq(SignShape(Paths))
    /\ \E limit \in SizeLimits : Len(archive.entries) <= limit + Len(signs)
    /\ edited \in {"no", "changed", "renamed"} /\ Len(signs) <= MaxSigns
    /\ signs = <<>> => archive.comment = <<>> /\ edited = "no"

\* A package nobody has changed holds what Pack collected and, if a signature added one,
\* a verification.
PackedKnows ==
    LET z == ReadFile(archive.entries) IN
    Pristine =>
        /\ PackValid(src)
        /\ DOMAIN z \ {VerificationFile} = CollectedPaths(src) \ {VerificationFile}
        /\ \A p \in DOMAIN z \ {VerificationFile} : z[p] = ContentOf(src, p)
        /\ VerificationFile \in DOMAIN z => z[VerificationFile] \in Categories
        /\ (\A i \in DOMAIN signs : signs[i].category = None_) =>
             DOMAIN z = CollectedPaths(src) /\ \A p \in DOMAIN z : z[p] = ContentOf(src, p)

\* The last signature s, with data d, was made over the entries es: it has what every file
\* read as, then the verification it added, then the time.
SignatureCovers(s, sig, es) ==
    LET n == Len(es) - (IF s.category = None_ THEN 0 ELSE 1) IN
    /\ sig.data \in Seq(Contents \cup {sig.time})
    /\ n \in Nat /\ Len(sig.data) = Len(es) + 1 /\ sig.data[Len(es) + 1] = sig.time
    /\ DOMAIN s.reads = {es[i].path : i \in 1..n}
    /\ \A i \in 1..n : sig.data[i] = s.reads[es[i].path]
    /\ s.category # None_ => es[n + 1].path = VerificationFile /\ sig.data[n + 1] = s.category

\* Until it is changed, a signed package reads as it did before it was signed, the
\* verification added.
SignedReads(s, es) ==
    LET z == ReadFile(es) IN
    /\ DOMAIN z = DOMAIN s.reads \cup (IF s.category = None_ THEN {} ELSE {VerificationFile})
    /\ \A p \in DOMAIN s.reads : z[p] = s.reads[p]
    /\ s.category # None_ /\ VerificationFile \notin DOMAIN s.reads => z[VerificationFile] = s.category
    /\ s.before = IF VerificationFile \in DOMAIN s.reads THEN s.reads[VerificationFile] ELSE None_

SignatureKnows ==
    signs # <<>> =>
        /\ Len(archive.comment) = 1 /\ archive.comment[1].key = LastSign.key
        /\ archive.comment[1].data = Append(LastSign.contents, archive.comment[1].time)
        /\ \/ SignatureCovers(LastSign, archive.comment[1], archive.entries)
           \/ edited = "changed" /\ Len(archive.entries) + 1 < Len(archive.comment[1].data)
           \/ edited = "renamed"
        /\ edited = "no" => archive.entries # <<>> /\ SignedReads(LastSign, archive.entries)

\* What was opened is the archive as it still is.
OpenedKnows ==
    LET v == ZipView(archive, src) IN
    \/ opened = NotOpened
    \/ opened.state = "error" /\ archive # NoArchive /\ ~ManifestLoads(v)
    \/ /\ opened.state = "open" /\ archive # NoArchive /\ opened.config \in Configs
       /\ opened.verified = VerifiedBy(v, opened.config)
       /\ opened.verified => opened.verification = DecodedVerification(v)

DpIInv ==
    /\ SourceKnows /\ ArchiveKnows /\ PackedKnows /\ SignatureKnows /\ OpenedKnows
============================================================================
