---------------------------- MODULE SettingsPage ----------------------------
(***************************************************************************)
(* The settings in the panel.  A page builds a tree from the rows it       *)
(* loaded and from the slots it knows of, and gives each field a control;  *)
(* what a control saves is decided by its kind, and the kind by what was   *)
(* loaded.  A save does not load the page again, so that what one page     *)
(* wrote is shown by another, or later.                                    *)
(*                                                                         *)
(* A node of the tree is the sequence of the segments that lead to it, the *)
(* root the empty one.                                                     *)
(***************************************************************************)
EXTENDS PlatformSettings

CONSTANTS Words,        \* the segments of the keys
          Segments,     \* the segments of each key; the last names its field
          Slots,        \* KNOWN_SETTING_SLOTS
          Credentials,  \* the slots that are encrypted
          Flags,        \* the keys whose value is BOOLEAN
          Selects,      \* SELECT_FIELD_OPTIONS
          Seeds,        \* the keys that a deployment seeds
          Production,   \* the mode 'PRODUCTION'
          Pages         \* browsers with the settings open

Block(k) == Front(Segments[k])
Field(k) == Last(Segments[k])
Buckets == {"sandbox", "production"}

\* Beside a mode, a bucket holds fields only, none of them one of the provider's.
ASSUME PageAssumption ==
  /\ Segments \in [Keys -> Seq(Words)] /\ \A k \in Keys : Segments[k] # << >>
  /\ \A j, k \in Keys : Segments[j] = Segments[k] => j = k
  /\ Credentials \subseteq Slots /\ Slots \subseteq Keys \ StorageKeys
  /\ Seeds \subseteq Keys \ Credentials
  /\ StorageKeys \cap Credentials = {}
  /\ \A m, k \in Keys, b \in Buckets :
       Field(m) = "mode" =>
         /\ Block(m) # << >>
         /\ IsPrefix(Append(Block(m), b), Block(k)) =>
              /\ Block(k) = Append(Block(m), b)
              /\ \A j \in Keys : Block(j) = Block(m) => Field(j) # Field(k)

VARIABLE page  \* what each page shows, or Null

pageVars == <<settingVars, page>>

------------------------------------------------------------------------------
(* buildSettingsTree                                                       *)

\* A setting has its row, or else its slot; whether it is encrypted is said by
\* that one.  The variant takes every slot for a plain one.
Present == {k \in Keys \ StorageKeys : HasRow(k)}
Offered == Present \cup Slots
EncryptedSlot(k) == k \in Credentials
SlotsArePlain == [k \in Offered |-> IF k \in Present THEN setting[k].encrypted ELSE FALSE]
Fields == [k \in Offered |-> IF k \in Present THEN setting[k].encrypted ELSE EncryptedSlot(k)]

BuildSettingsTree(fields) ==
  [encrypted |-> fields,
   live |-> {k \in Present : setting[k].value = Production},
   nodes |-> UNION {{SubSeq(Block(k), 1, i) : i \in 1 .. Len(Block(k))} : k \in DOMAIN fields}]

\* mergeActiveModeCredentials: a node with a mode and with both buckets takes
\* the fields of the active one, and has neither as a child.
Split(t, n) ==
  /\ \E m \in DOMAIN t.encrypted : Segments[m] = Append(n, "mode")
  /\ \A b \in Buckets : Append(n, b) \in t.nodes
Active(t, n) ==
  Append(n, IF \E m \in t.live : Segments[m] = Append(n, "mode") THEN "production" ELSE "sandbox")
MergedAway(t, n) == Last(n) \in Buckets /\ Split(t, Front(n))

Assigned(t, n) == {k \in DOMAIN t.encrypted : Block(k) = Active(t, n) /\ Split(t, n)}
FieldsOf(t, n) ==
  Assigned(t, n) \cup
  {k \in DOMAIN t.encrypted : Block(k) = n /\ \A j \in Assigned(t, n) : Field(j) # Field(k)}
ChildrenOf(t, n) == {c \in t.nodes : Front(c) = n /\ ~ MergedAway(t, c)}

------------------------------------------------------------------------------
(* renderRootTabs, renderGroupNode, renderLeafBlock                        *)

\* A node that has children renders them, whether or not it has fields; once
\* it did so only without.
EitherOr(t, n) == ChildrenOf(t, n) # {} /\ FieldsOf(t, n) = {}
RendersChildren(t, n) == ChildrenOf(t, n) # {}

\* The leaf block of a node is reached if each node above it renders its children.
Reached(t, n) ==
  \A i \in 1 .. Len(n) :
    RendersChildren(t, SubSeq(n, 1, i - 1)) /\ ~ MergedAway(t, SubSeq(n, 1, i))
LeafBlocks(t) == {n \in t.nodes : FieldsOf(t, n) # {} /\ Reached(t, n)}

\* What the two answers give; a query that is refused gives nothing.
Render(t, storage) ==
  [tree |-> t, block |-> [n \in LeafBlocks(t) |-> FieldsOf(t, n)], storage |-> storage]

\* renderSettingField.
Kind(p, k) == IF p.tree.encrypted[k] THEN "credential"
              ELSE IF k \in Flags THEN "flag" ELSE IF k \in Selects THEN "select" ELSE "text"
Controls(p, k) == {n \in DOMAIN p.block : k \in p.block[n]}

------------------------------------------------------------------------------
(* The page                                                                *)

\* The two queries are answered together; each has a permission of its own.
LoadSettings(a) ==
  /\ \E general, storage \in BOOLEAN :
       /\ general \/ storage
       /\ page' = [page EXCEPT ![a] =
            Render(BuildSettingsTree(IF general THEN Fields ELSE << >>), storage)]
  /\ UNCHANGED settingVars

\* Both are refused, the session has ended, or an answer is lost.
LoadSettingsFails(a) == page' = [page EXCEPT ![a] = Null] /\ UNCHANGED settingVars

\* A control saves what was entered in it, unless it is blank.
Submits(a, r, k, form, kinds) ==
  /\ page[a] # Null /\ Controls(page[a], k) # {} /\ Kind(page[a], k) \in kinds
  /\ form.text # Blank
  /\ BeginSave(r, k, form)
  /\ UNCHANGED page

HandleToggle(a, r, k, form) == ~ form.encrypted /\ Submits(a, r, k, form, {"flag"})
HandleSaveSetting(a, r, k, form) == ~ form.encrypted /\ Submits(a, r, k, form, {"select", "text"})
HandleSaveCredential(a, r, k, form) ==
  form.encrypted /\ ~ form.public /\ Submits(a, r, k, form, {"credential"})

\* The tab of the storage sends its three values together.
SaveStorage(a) ==
  /\ page[a] # Null /\ page[a].storage
  /\ \E values \in [StorageKeys -> Values] : UpdateStorageSettings(values)
  /\ UNCHANGED page

PageInit == SettingsInit /\ page = [a \in Pages |-> Null]

PageNext ==
  \/ \E a \in Pages :
       \/ LoadSettings(a) \/ LoadSettingsFails(a) \/ SaveStorage(a)
       \/ \E r \in Saves, k \in Keys : \E form \in Input[k] :
            HandleToggle(a, r, k, form) \/ HandleSaveSetting(a, r, k, form) \/ HandleSaveCredential(a, r, k, form)
  \/ \E k \in Seeds : \E form \in Input[k] : SeedSetting(k, form) /\ UNCHANGED page
  \/ \E r \in Saves : (CommitSave(r) \/ GiveUpSave(r)) /\ UNCHANGED page

PageSpec == PageInit /\ [][PageNext]_pageVars

------------------------------------------------------------------------------
\* A page that has loaded the general settings gives each of them one control,
\* in one block that can be reached, and those of the other bucket of a provider
\* none; a control is the one for credentials exactly where the setting is one.
\* So, whatever pages load and save and in whatever order, what a page shows as a
\* credential was never stored as plain text, nor a plain setting encrypted.
Resting(t, k) == MergedAway(t, Block(k)) /\ Block(k) # Active(t, Front(Block(k)))
OneControlEach ==
  \A a \in Pages : page[a] # Null => LET t == page[a].tree IN
    /\ \A k \in Keys : HasRow(k) => (setting[k].encrypted <=> k \in Credentials)
    /\ \A k \in DOMAIN t.encrypted :
         /\ t.encrypted[k] <=> k \in Credentials
         /\ IF Len(Segments[k]) = 1 \/ Resting(t, k)
            THEN Controls(page[a], k) = {}
            ELSE \E n \in t.nodes : Controls(page[a], k) = {n}
=============================================================================
