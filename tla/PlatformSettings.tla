-------------------------- MODULE PlatformSettings --------------------------
(***************************************************************************)
(* The rows administrators set at run time, the credentials among them,    *)
(* and the tree of public ones that every client reads.                    *)
(*                                                                         *)
(* A save reads the row, encrypts, and writes it later whatever it has     *)
(* become: saves of one key overtake each other.  Values stand for the     *)
(* texts that parse as the type of their setting, Secrets for the texts    *)
(* of credentials, Blank for the empty one.  Rows are never deleted.       *)
(***************************************************************************)
EXTENDS Naturals, Sequences, SequencesExt, FiniteSets

CONSTANTS Keys,         \* the keys, numbered in the order of localeCompare
          Path,         \* the camelCase segments of each key
          StorageKeys,  \* the keys with the reserved prefix 'storage.'
          Defaults,     \* KNOWN_PLATFORM_CONFIG_BOOLEAN_DEFAULTS: a sequence of paths
          Values, Secrets, Off, Blank, Null,
          Input,        \* what administrators submit for each key
          Saves         \* saves that can be in flight at once

VARIABLES setting,   \* the PlatformSetting rows
          entered,   \* the credential that was last typed in for each key
          reverted,  \* keys to which an overtaken save gave an older credential
          save       \* the saves in flight

settingVars == <<setting, entered, reverted, save>>

NoRow == [encrypted |-> FALSE, public |-> FALSE, value |-> Null, secret |-> Null]
Row == [encrypted : BOOLEAN, public : BOOLEAN, value : Values \cup {Null}, secret : Secrets \cup {Null}]
Form == [encrypted : BOOLEAN, public : BOOLEAN, text : Values \cup Secrets \cup {Blank}]

ASSUME SettingsAssumption ==
  /\ Keys \subseteq Nat /\ Null \notin Keys /\ StorageKeys \subseteq Keys
  /\ \A k \in Keys : \A form \in Input[k] :
       form \in Form /\ form.text \in (IF form.encrypted THEN Secrets ELSE Values) \cup {Blank}
  /\ {Blank, Null} \cap (Values \cup Secrets) = {} /\ Values \cap Secrets = {}
  /\ Off \in Values

\* No default stands at, above or below another one.
Related(p, q) == IsPrefix(p, q) \/ IsPrefix(q, p)
ASSUME DefaultsAssumption ==
  /\ Defaults \in Seq(Seq(STRING))
  /\ \A i, j \in DOMAIN Defaults : Related(Defaults[i], Defaults[j]) => Defaults[i] = Defaults[j]

HasRow(k) == setting[k] # NoRow

------------------------------------------------------------------------------
(* ListPlatformConfigService                                               *)

\* A tree of the response: the value at the path of each of its leaves.
IsObject(tree, path) == \E q \in DOMAIN tree : IsStrictPrefix(path, q)
BelowALeaf(tree, path) == \E q \in DOMAIN tree : IsStrictPrefix(q, path)
Put(tree, path, value) == [q \in DOMAIN tree \cup {path} |-> IF q = path THEN value ELSE tree[q]]

\* Nothing is written below a leaf or over an object; the variant looks only
\* at the way down.
AssignOver(tree, path, value) == IF BelowALeaf(tree, path) THEN tree ELSE Put(tree, path, value)
AssignAtPath(tree, path, value) ==
  IF BelowALeaf(tree, path) \/ IsObject(tree, path) THEN tree ELSE Put(tree, path, value)

FillDefaultAtPath(tree, path) ==
  IF path \in DOMAIN tree THEN tree ELSE AssignAtPath(tree, path, Off)

\* findPublicSettings.
PublicSettings == {k \in Keys : HasRow(k) /\ ~ setting[k].encrypted /\ setting[k].public}

\* The rows are assigned in the order of their keys, the greatest one last, and
\* the defaults after them.
AssignedSettings ==
  MapThenFoldSet(LAMBDA k, tree : AssignAtPath(tree, Path[k], setting[k].value), << >>,
                 LAMBDA k : k, LAMBDA S : Max(S), PublicSettings)
ListPlatformConfig == FoldLeft(FillDefaultAtPath, AssignedSettings, Defaults)

------------------------------------------------------------------------------
(* SetPlatformSettingService                                               *)

NoSave == [pc |-> "idle", k |-> Null, form |-> Null, kept |-> Null, overtaken |-> FALSE]

\* A credential field left blank keeps the credential that is stored; the
\* variant does not ask for one.
KeepsAnyRow(old, form) == form.encrypted /\ form.text = Blank
KeepsCredential(old, form) == form.encrypted /\ form.text = Blank /\ old.encrypted

BeginSave(r, k, form) ==
  LET keep == KeepsCredential(setting[k], form) IN
  /\ save[r].pc = "idle"
  /\ k \notin StorageKeys
  /\ ~ (form.encrypted /\ form.public)
  /\ keep \/ form.text # Blank
  /\ save' = [save EXCEPT ![r] =
       [pc |-> "write", k |-> k, form |-> form, overtaken |-> FALSE,
        kept |-> IF keep THEN setting[k].secret ELSE Null]]
  /\ UNCHANGED <<setting, entered, reverted>>

\* What the transaction writes, from the form and from what was read.
Kept(r) == save[r].form.text = Blank
Written(r) ==
  LET form == save[r].form IN
  [encrypted |-> form.encrypted, public |-> form.public,
   value |-> IF form.encrypted THEN Null ELSE form.text,
   secret |-> IF Kept(r) THEN save[r].kept ELSE IF form.encrypted THEN form.text ELSE Null]

Overtake(r, k) ==
  save' = [q \in Saves |-> IF q = r THEN NoSave
                              ELSE IF save[q].k = k THEN [save[q] EXCEPT !.overtaken = TRUE] ELSE save[q]]

CommitSave(r) ==
  LET k == save[r].k IN
  /\ save[r].pc = "write"
  /\ setting' = [setting EXCEPT ![k] = Written(r)]
  /\ entered' = [entered EXCEPT ![k] = IF save[r].form.encrypted /\ ~ Kept(r) THEN save[r].form.text ELSE @]
  /\ reverted' = IF Kept(r) /\ save[r].overtaken THEN reverted \cup {k}
                 ELSE IF Kept(r) THEN reverted ELSE reverted \ {k}
  /\ Overtake(r, k)

\* UpdateStorageSettingsService writes all of them, none public, in one transaction.
UpdateStorageSettings(values) ==
  /\ setting' = [k \in Keys |-> IF k \in StorageKeys THEN [NoRow EXCEPT !.value = values[k]] ELSE setting[k]]
  /\ UNCHANGED <<entered, reverted, save>>

\* The seed of a deployment adds rows, plain ones, and overwrites none.
SeedSetting(k, form) ==
  /\ ~ HasRow(k)
  /\ ~ form.encrypted /\ form.text # Blank
  /\ setting' = [setting EXCEPT ![k] = [NoRow EXCEPT !.public = form.public, !.value = form.text]]
  /\ UNCHANGED <<entered, reverted, save>>

GiveUpSave(r) ==
  /\ save[r].pc = "write"
  /\ save' = [save EXCEPT ![r] = NoSave]
  /\ UNCHANGED <<setting, entered, reverted>>

------------------------------------------------------------------------------
SettingsInit == /\ setting = [k \in Keys |-> NoRow]
                /\ entered = [k \in Keys |-> Null]
                /\ reverted = {}
                /\ save = [r \in Saves |-> NoSave]

SettingsNext ==
  \/ \E r \in Saves : CommitSave(r) \/ GiveUpSave(r)
  \/ \E k \in Keys : \E form \in Input[k] : SeedSetting(k, form) \/ \E r \in Saves : BeginSave(r, k, form)
  \/ \E values \in [StorageKeys -> Values] : UpdateStorageSettings(values)

SettingsSpec == SettingsInit /\ [][SettingsNext]_settingVars

------------------------------------------------------------------------------
(* Properties                                                              *)

\* The types of the rows and of what saves carry.
SettingsTypeOK ==
  /\ setting \in [Keys -> Row]
  /\ entered \in [Keys -> Secrets \cup {Null}]
  /\ reverted \subseteq Keys
  /\ \A r \in Saves :
       save[r] = NoSave \/ save[r] \in [pc : {"write"}, k : Keys, form : Form, kept : Secrets \cup {Null},
                                      overtaken : BOOLEAN]

\* The tree that clients read (settings and defaults folded into an object in
\* which a key is a leaf or an object, never both) shows exactly what is
\* public: a leaf is the last setting of its path or a default that no setting
\* is at; a public setting that is missing is at, above or below one that
\* sorts before it, or lost its path to one that sorts after it.
ConfigShowsWhatIsPublic ==
  LET tree == ListPlatformConfig
      Public(k) == HasRow(k) /\ setting[k].public
      At(p) == {k \in Keys : Public(k) /\ Path[k] = p}
  IN  /\ \A p, q \in DOMAIN tree : Related(p, q) => p = q
      /\ \A p \in DOMAIN tree :
           IF At(p) = {} THEN p \in Range(Defaults) /\ tree[p] = Off
           ELSE \E k \in At(p) : tree[p] = setting[k].value /\ \A j \in At(p) : j <= k
      /\ \A k \in Keys : Public(k) /\ Path[k] \notin DOMAIN tree =>
           \E j \in Keys : j < k /\ Public(j) /\ Related(Path[j], Path[k])
      /\ \A p \in Range(Defaults) \ DOMAIN tree : \E k \in Keys : Public(k) /\ Related(Path[k], p)

\* A row is a credential, encrypted and never public, or a plain value, whatever
\* saves race; and the credential is the one that was typed in last, unless a
\* save that kept what it had read was overtaken by another one.
CredentialsAreWhole ==
  \A k \in Keys : LET row == setting[k] IN
    HasRow(k) =>
      IF row.encrypted
      THEN /\ ~ row.public /\ row.value = Null /\ row.secret # Null
           /\ row.secret = entered[k] \/ k \in reverted
      ELSE row.value \in Values /\ row.secret = Null
=============================================================================
