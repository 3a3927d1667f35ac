------------------------------ MODULE Journal ------------------------------
(***************************************************************************)
(* The undo journal (nebo-runtimes/src/journal.rs, doc/mod.rs, change.rs): *)
(* the link's changes to a runtime's config file, OpenClaw's here, and     *)
(* their undoing, with the owner changing the same file by hand and each   *)
(* of the journal's two writes cut short by a crash or an error.           *)
(*                                                                         *)
(* A file is its tree of settings: a function from the sections present to *)
(* functions from the keys present to their values.  Two levels stand for  *)
(* a setting's path: its parents and its last key.  What the text looks    *)
(* like around the settings (doc/json5.rs, yaml.rs, dotenv.rs splice one   *)
(* setting and check that the file then parses to the edited tree) is left *)
(* out.                                                                    *)
(***************************************************************************)
EXTENDS Naturals, Sequences, FiniteSets, SequencesExt, TLC

CONSTANTS
    Lists,      \* the model lists NeboAI may answer: what a models change writes
    Values,     \* what the owner writes
    Given,      \* the trees the file may hold before the link, None: no file
    OwnerAt,    \* the settings the owner changes: a set of <<section, key>>
    MaxEdits,   \* bound: how often the owner changes the file
    None

ASSUME MaxEditsIsNat == MaxEdits \in Nat

VARIABLES
    config,     \* the file's tree; None: there is no file
    journal,    \* journal.json: the entry of each change applied, by its kind
    writing,    \* the second write of the call under way, or None
    mine,       \* history: the tree as it would be without the link
    clean,      \* history: no conflict reported, no replacement cut short, no
                \* entry lost with the journal
    nested,     \* history: the owner added to a section the link had made
    edits       \* history: how often the owner changed the file

fileVars == <<config, journal, writing>>
ghostVars == <<mine, clean, nested, edits>>
journalVars == <<fileVars, ghostVars>>

Kinds == {"proxy", "models"}
Link == "link"    \* a value the link writes whatever its parameters

-----------------------------------------------------------------------------
(* Trees *)

Empty == [s \in {} |-> None]
Put(f, x, v) ==
    IF v = None THEN [y \in DOMAIN f \ {x} |-> f[y]]
    ELSE [y \in DOMAIN f \cup {x} |-> IF y = x THEN v ELSE f[y]]
At(f, x) == IF x \in DOMAIN f THEN f[x] ELSE None
Tree(file) == IF file = None THEN Empty ELSE file

(* The value at a record's path: the whole section when its key is None. *)
GetPath(t, r) ==
    IF r.key = None THEN At(t, r.section)
    ELSE IF r.section \in DOMAIN t THEN At(t[r.section], r.key) ELSE None

(* The value set at a record's path, a missing section made. *)
Set(t, r, v) ==
    IF r.key = None THEN Put(t, r.section, v)
    ELSE IF r.section \in DOMAIN t
         THEN [t EXCEPT ![r.section] = Put(@, r.key, v)]
         ELSE IF v = None THEN t ELSE Put(t, r.section, Put(Empty, r.key, v))

(* The record of one edit: where it is written (the section, when it is    *)
(* missing), and the value there before and after.                         *)
Record(t, e) ==
    IF e.section \in DOMAIN t
    THEN [section |-> e.section, key |-> e.key,
          prior |-> GetPath(t, e), applied |-> e.value]
    ELSE [section |-> e.section, key |-> None, prior |-> None,
          applied |-> IF e.value = None THEN None
                      ELSE Put(Empty, e.key, e.value)]

Changes(r) == r.prior # r.applied

(* doc::apply: the tree edited, and a record of every setting changed. *)
Edited(t, es) ==
    LET step(acc, e) ==
            LET r == Record(acc.tree, e)
            IN  IF Changes(r)
                THEN [tree |-> Set(acc.tree, r, r.applied),
                      records |-> Append(acc.records, r)]
                ELSE acc
    IN  FoldLeft(step, [tree |-> t, records |-> <<>>], es)

(* doc::revert: newest first, each setting put back that still holds the   *)
(* value the record applied; the others are conflicts.                     *)
Undone(t, records) ==
    LET step(acc, r) ==
            IF GetPath(acc.tree, r) # r.applied
            THEN [acc EXCEPT !.conflicts = @ \cup {<<r.section, r.key>>}]
            ELSE [acc EXCEPT !.tree = Set(acc.tree, r, r.prior)]
    IN  FoldLeft(step, [tree |-> t, conflicts |-> {}], Reverse(records))

IsApplied(t, es) == Edited(t, es).records = <<>>

-----------------------------------------------------------------------------
(* The changes *)

Edit(s, k, v) == [section |-> s, key |-> k, value |-> v]

(* A setting set in a section the owner may not have, the token removed,   *)
(* and the sign-in switched.                                               *)
ProxyAccess == << Edit("ui", "basePath", Link),
                  Edit("auth", "token", None),
                  Edit("auth", "mode", Link) >>

(* The provider, and the default model that names it. *)
NeboaiModels(list) == << Edit("providers", "neboai", list),
                         Edit("agents", "model", list) >>

EditsFor(kind, list) ==
    IF kind = "proxy" THEN ProxyAccess ELSE NeboaiModels(list)

Entry(before, edited) ==
    [before |-> before, after |-> edited.tree, records |-> edited.records]

Applied(kind) == kind \in DOMAIN journal
Keeping(kind, entry) ==
    [k \in DOMAIN journal \cup {kind} |-> IF k = kind THEN entry ELSE journal[k]]

\* Mutant: the new entry's prior values are read from the file as it is.
LinkBase(kind) == config

(* What a change is applied to: the file without its earlier application,  *)
(* so the new record's prior values are the owner's.                       *)
Base(kind) ==
    IF ~Applied(kind) THEN config
    ELSE LET entry == journal[kind] IN
         IF config = entry.after THEN entry.before
         ELSE Undone(Tree(config), entry.records).tree

-----------------------------------------------------------------------------
JournalInit ==
    /\ config \in Given
    /\ journal = Empty
    /\ writing = None
    /\ mine = Tree(config)
    /\ clean = TRUE
    /\ nested = FALSE
    /\ edits = 0

(* Journal::apply, up to its first write: the journal's.  The file's is    *)
(* still to come.                                                          *)
Apply(kind, list) ==
    /\ writing = None
    /\ ~IsApplied(Tree(config), EditsFor(kind, list))
    /\ LET base == Base(kind)
           edited == Edited(Tree(base), EditsFor(kind, list))
       IN  /\ journal' = Keeping(kind, Entry(base, edited))
           /\ writing' = [step |-> "file", kind |-> kind, file |-> edited.tree,
                          again |-> Applied(kind)]
    /\ UNCHANGED <<config, ghostVars>>

(* What a revert of the entry leaves in the file. *)
Restored(entry) ==
    IF config = None THEN None
    ELSE IF config = entry.after THEN entry.before
    ELSE Undone(config, entry.records).tree

Conflicts(entry) ==
    IF config = None \/ config = entry.after THEN {}
    ELSE Undone(config, entry.records).conflicts

(* Journal::revert, up to its first write: the file's. *)
Revert(kind) ==
    /\ writing = None
    /\ Applied(kind)
    /\ config' = Restored(journal[kind])
    /\ clean' = (clean /\ Conflicts(journal[kind]) = {})
    /\ writing' = [step |-> "forget", kind |-> kind]
    /\ UNCHANGED <<journal, mine, nested, edits>>

(* The call's second write. *)
Written ==
    /\ writing # None
    /\ \/ /\ writing.step = "file"
          /\ config' = writing.file
          /\ UNCHANGED journal
       \/ /\ writing.step = "forget"
          /\ journal' = Restrict(journal, DOMAIN journal \ {writing.kind})
          /\ UNCHANGED config
    /\ writing' = None
    /\ UNCHANGED ghostVars

(* A crash or an error between the two. *)
Cut ==
    /\ writing # None
    /\ writing' = None
    /\ clean' = (clean /\ ~(writing.step = "file" /\ writing.again))
    /\ UNCHANGED <<config, journal, mine, nested, edits>>

(* The sections an entry's record made whole. *)
Made(section) ==
    \E k \in DOMAIN journal : \E i \in DOMAIN journal[k].records :
        /\ journal[k].records[i].section = section
        /\ journal[k].records[i].key = None

(* The link's own value at a setting, as an entry records it. *)
LinkPut(r, v) ==
    \E k \in DOMAIN journal : \E i \in DOMAIN journal[k].records :
        LET rec == journal[k].records[i] IN
        /\ rec.section = r.section
        /\ rec.key = r.key
        /\ rec.applied = v

(* The owner sets or removes a setting of the file by hand: never back to  *)
(* what the link set, which no revert could tell from the link's.          *)
OwnerEdits(at, v) ==
    /\ writing = None
    /\ edits < MaxEdits
    /\ LET r == Edit(at[1], at[2], v) IN
       /\ GetPath(Tree(config), r) # v
       /\ ~LinkPut(r, v)
       /\ config' = Set(Tree(config), r, v)
       /\ mine' = Set(mine, r, v)
       /\ nested' = (nested \/ (Made(at[1]) /\ at \notin {<<"ui", "basePath">>, <<"providers", "neboai">>}))
    /\ edits' = edits + 1
    /\ UNCHANGED <<journal, writing, clean>>

-----------------------------------------------------------------------------
(* Every variable holds values of its kind, and the second write under way *)
(* is of a change that has its entry.                                      *)
JournalTypeOK ==
    /\ DOMAIN journal \subseteq Kinds
    /\ edits \in 0..MaxEdits
    /\ clean \in BOOLEAN /\ nested \in BOOLEAN
    /\ writing # None => Applied(writing.kind)

Resting == writing = None /\ DOMAIN journal = {}

(* Every setting a tree has, and its value. *)
Settings(t) == UNION {{<<s, k, t[s][k]>> : k \in DOMAIN t[s]} : s \in DOMAIN t}

(* Once nothing of the link's is applied, the file holds what it would     *)
(* without the link, provided no revert reported a conflict, no            *)
(* replacement was cut short, no entry was lost with the journal, and the  *)
(* owner added nothing to a section the link had made (journal.rs: apply,  *)
(* revert).                                                                *)
GivenBack ==
    Resting /\ clean /\ ~nested => Settings(Tree(config)) = Settings(mine)
=============================================================================
