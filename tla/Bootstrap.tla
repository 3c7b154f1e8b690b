------------------------------ MODULE Bootstrap ------------------------------
(***************************************************************************)
(* cmd/bootstrap, the command that turns a checkout of the template into a *)
(* project: it learns the template's identity from the checkout, works out *)
(* how every tracked text file has to change, and only then rewrites them, *)
(* one at a time, each through a temporary file and a rename.              *)
(*                                                                         *)
(* A text is a sequence of atoms: words, separators and punctuation.  A    *)
(* name never begins or ends inside a word, so a rule matches whole atoms, *)
(* and of two rules that match at one place the longer in atoms is also    *)
(* the longer in bytes.                                                    *)
(*                                                                         *)
(* The process may be killed and the machine may lose power at any step;   *)
(* the operator inspects, restores or commits the checkout with git and    *)
(* runs the command again.                                                 *)
(***************************************************************************)
EXTENDS Naturals, FiniteSets, SequencesExt, FiniteSetsExt

CONSTANTS Files,      \* the tracked files, sorted by name
          Kind,       \* what each file is: "text", "binary" or "symlink"
          Mentions,   \* each file's text, with the identity's names in place
          Template,   \* the template's identity
          Options,    \* the command lines
          Upper,      \* each word with its first letter in upper case
          Domains,    \* the atoms that are host names
          MaxFaults,  \* how often something fails
          MaxForced   \* how often the operator says --force

VARIABLES tree,       \* the worktree, as any process sees it
          disk,       \* each file's content as of its directory's last sync
          unflushed,  \* the files whose data was not flushed before the rename
          litter,     \* the files whose temporary file lies in the worktree
          dirSync,    \* whether the platform can sync a directory
          committed,  \* the tree of HEAD
          project,    \* the options of the run whose result was committed
          run,        \* the running command
          last,       \* how the last command ended
          faults, forced

vars == <<tree, disk, unflushed, litter, dirSync, committed, project, run, last, faults, forced>>

Tracked == Range(Files)

\* A file whose data was never flushed.
Torn == <<"torn">>

-----------------------------------------------------------------------------
(***************************************************************************)
(* Names.                                                                  *)
(***************************************************************************)
Separators == {"-", "_", "."}

\* strings.Split(module, "/").
Segments(module) ==
  LET slashes == SelectSeq([i \in DOMAIN module |-> i], LAMBDA i : module[i] = "/")
      cuts == <<0>> \o slashes \o <<Len(module) + 1>>
  IN [n \in 1..(Len(cuts) - 1) |-> SubSeq(module, cuts[n] + 1, cuts[n + 1] - 1)]

Versions == {"v2", "v3"}

\* The last segment, or the one before a major version suffix.
projectSlug(module) ==
  LET parts == Segments(module)
      last1 == parts[Len(parts)]
  IN IF Len(last1) = 1 /\ last1[1] \in Versions /\ Len(parts) > 1
     THEN parts[Len(parts) - 1] ELSE last1

githubOwner(module) ==
  LET parts == Segments(module)
  IN IF Len(parts) >= 3 /\ parts[1] = <<"github.com">> THEN parts[2] ELSE <<>>

\* The words, capitalised and joined with spaces.
titleFromSlug(slug) ==
  LET words == SelectSeq(slug, LAMBDA a : a \notin Separators)
  IN [n \in 1..(2 * Len(words) - 1) |-> IF n % 2 = 1 THEN Upper[words[(n + 1) \div 2]] ELSE " "]

ownerPattern(owner) == owner # <<>> /\ \A i \in DOMAIN owner : owner[i] \notin {".", "_", "/"}

validateOptions(o) ==
  /\ Len(Segments(o.module)) >= 2
  /\ \A n \in DOMAIN Segments(o.module) : Segments(o.module)[n] # <<>>
  /\ o.slug # <<>> /\ \A i \in DOMAIN o.slug : o.slug[i] \notin {".", "/"}
  /\ o.owner # <<>> => ownerPattern(o.owner)

-----------------------------------------------------------------------------
(***************************************************************************)
(* What the checkout says about itself.                                    *)
(***************************************************************************)
\* A regular file of valid text; symbolic links and binary files are left alone.
IsText(f) == Kind[f] = "text"

\* The rest of the line after a prefix: the match of moduleDirective and of
\* copyrightHolder.
LineAfter(prefix, text) ==
  LET start == Min({i \in DOMAIN text : text[i] = prefix})
      end   == Min({i \in (start + 1)..Len(text) : text[i] = "\n"})
  IN SubSeq(text, start + 1, end - 1)

\* The matches of emailPattern in the policy documents.
PolicyDocuments == {"SECURITY.md", "CODE_OF_CONDUCT.md"}

discoverEmails(t) ==
  UNION {LET text == t[f]
         IN {SubSeq(text, i, i + 2) : i \in {j \in 1..(Len(text) - 2) :
               text[j] \in DOMAIN Upper /\ text[j + 1] = "@" /\ text[j + 2] \in Domains}}
         : f \in {d \in PolicyDocuments \cap Tracked : IsText(d)}}

discoverCopyrightHolder(t) ==
  IF IsText("LICENSE") THEN LineAfter("Copyright (c) 2023 ", t["LICENSE"]) ELSE <<>>

readMetadata(t) ==
  LET module == LineAfter("module ", t["go.mod"])
  IN [oldModule |-> module,
      oldSlug   |-> projectSlug(module),
      oldOwner  |-> githubOwner(module),
      oldTitle  |-> titleFromSlug(projectSlug(module)),
      oldAuthor |-> discoverCopyrightHolder(t),
      oldEmails |-> discoverEmails(t)]

-----------------------------------------------------------------------------
(***************************************************************************)
(* The replacements.                                                       *)
(***************************************************************************)
NewOwner(o) == IF o.owner # <<>> THEN o.owner ELSE githubOwner(o.module)

PlainOwner(o) == IF o.author # <<>> THEN o.author ELSE NewOwner(o)

\* The errors of makeReplacements.
Refuses(meta, o) ==
  \/ NewOwner(o) # <<>> /\ ~ownerPattern(NewOwner(o))
  \/ meta.oldOwner # <<>> /\ NewOwner(o) = <<>>
  \/ meta.oldEmails # {} /\ o.email = <<>>
  \/ o.email # <<>> /\ Cardinality(meta.oldEmails) # 1

\* Without an old or with nothing to change an item is no rule, and of two
\* items for one text the first counts.
normalizeReplacements(items) ==
  LET rule(i) == items[i].old # <<>> /\ items[i].old # items[i].new
  IN {items[i] : i \in {j \in DOMAIN items :
        rule(j) /\ ~\E k \in 1..(j - 1) : rule(k) /\ items[k].old = items[j].old}}

When(condition, items) == IF condition THEN items ELSE <<>>

Item(old, new) == [old |-> old, new |-> new]

OwnerItemsAlways(meta, o) ==
  When(meta.oldOwner # <<>> /\ NewOwner(o) # <<>>,
       <<Item(<<"github.com", "/">> \o meta.oldOwner, <<"github.com", "/">> \o NewOwner(o)),
         Item(<<"@">> \o meta.oldOwner, <<"@">> \o NewOwner(o)),
         Item(meta.oldOwner, PlainOwner(o))>>)

\* URLs, handles and, when the owner changes, plain mentions of the owner.
OwnerItems(meta, o) ==
  When(meta.oldOwner # <<>> /\ NewOwner(o) # <<>>,
       <<Item(<<"github.com", "/">> \o meta.oldOwner, <<"github.com", "/">> \o NewOwner(o)),
         Item(<<"@">> \o meta.oldOwner, <<"@">> \o NewOwner(o))>>
       \o When(meta.oldOwner # NewOwner(o), <<Item(meta.oldOwner, PlainOwner(o))>>))

makeReplacements(meta, o) ==
  normalizeReplacements(
    <<Item(meta.oldModule, o.module), Item(meta.oldSlug, o.slug),
      Item(meta.oldTitle, titleFromSlug(o.slug))>>
    \o OwnerItems(meta, o)
    \o When(meta.oldAuthor # <<>> /\ PlainOwner(o) # <<>>, <<Item(meta.oldAuthor, PlainOwner(o))>>)
    \o When(o.email # <<>>, <<Item(CHOOSE e \in meta.oldEmails : TRUE, o.email)>>))

\* Scanning from an offset, the longest rule that matches there is applied (the
\* rules are sorted), and the scan goes on after what it matched in the input.
Scan(input, rules) ==
  LET from[offset \in 1..(Len(input) + 1)] ==
        IF offset > Len(input) THEN <<>>
        ELSE LET matching == {r \in rules : IsPrefix(r.old, SubSeq(input, offset, Len(input)))}
                 item == CHOOSE r \in matching : \A q \in matching : Len(q.old) <= Len(r.old)
             IN IF matching = {} THEN <<input[offset]>> \o from[offset + 1]
                ELSE item.new \o from[offset + Len(item.old)]
  IN from[1]

\* What was written is scanned again.
replaceOnceCascading(input, rules) == Scan(Scan(input, rules), rules)
replaceOnce(input, rules) == Scan(input, rules)

\* What a run writes, in the order of the files.
collectChanges(t, rules) ==
  LET after(f) == IF IsText(f) THEN replaceOnce(t[f], rules) ELSE t[f]
  IN SelectSeq([n \in DOMAIN Files |-> [file |-> Files[n], after |-> after(Files[n])]],
               LAMBDA change : change.after # t[change.file])

-----------------------------------------------------------------------------
(***************************************************************************)
(* The identity's names in a file, for a given identity.                   *)
(***************************************************************************)
Render(id, mentions) ==
  FlattenSeq([n \in DOMAIN mentions |->
    CASE mentions[n] = "<module>" -> id.module
      [] mentions[n] = "<slug>"   -> id.slug
      [] mentions[n] = "<title>"  -> titleFromSlug(id.slug)
      [] mentions[n] = "<url>"    -> <<"github.com", "/">> \o id.owner
      [] mentions[n] = "<handle>" -> <<"@">> \o id.owner
      [] mentions[n] = "<owner>"  -> id.plain
      [] mentions[n] = "<author>" -> id.author
      [] mentions[n] = "<email>"  -> id.email
      [] OTHER                    -> <<mentions[n]>>])

TemplateTree == [f \in Tracked |-> Render(Template, Mentions[f])]

\* The identity a run is asked for.  An owner that stays is not replaced by
\* the author in plain mentions.
Identity(o) ==
  [module |-> o.module, slug |-> o.slug, owner |-> NewOwner(o),
   plain  |-> IF NewOwner(o) = Template.owner THEN Template.owner ELSE PlainOwner(o),
   author |-> PlainOwner(o), email |-> o.email]

Renamed(o) ==
  [f \in Tracked |-> IF IsText(f) THEN Render(Identity(o), Mentions[f]) ELSE TemplateTree[f]]

NoOptions == [module |-> <<>>]

Idle == [phase |-> "idle"]

Ended(result, o, changed) == [result |-> result, opts |-> o, changed |-> changed]

Init ==
  /\ tree = TemplateTree
  /\ disk = TemplateTree
  /\ unflushed = {}
  /\ litter = {}
  /\ dirSync \in BOOLEAN
  /\ committed = TemplateTree
  /\ project = NoOptions
  /\ run = Idle
  /\ last = Ended("none", NoOptions, 0)
  /\ faults = 0
  /\ forced = 0

checkout == <<tree, disk, unflushed, litter>>
world == <<dirSync, committed, project>>

-----------------------------------------------------------------------------
(***************************************************************************)
(* run, up to the first write.                                             *)
(***************************************************************************)
\* git status --untracked-files=all says nothing.
requireCleanWorktree == tree = committed /\ litter = {}

NotEnded == Ended("none", NoOptions, 0)

\* A refusal or a dry run ends the command; so does a run that has nothing to
\* change.  Otherwise it goes on with the first change.
Run(o) ==
  /\ run = Idle
  /\ o.force => forced < MaxForced
  /\ forced' = IF o.force THEN forced + 1 ELSE forced
  /\ LET meta     == readMetadata(tree)
         changes  == collectChanges(tree, makeReplacements(meta, o))
         proceeds == (o.force \/ requireCleanWorktree) /\ validateOptions(o) /\ ~Refuses(meta, o)
     IN \/ /\ ~proceeds
           /\ last' = Ended("refused", NoOptions, 0)
           /\ UNCHANGED run
        \/ /\ proceeds
           /\ o.dryRun \/ changes = <<>>
           /\ last' = Ended(IF o.dryRun THEN "dry-run" ELSE "success", o, Len(changes))
           /\ UNCHANGED run
        \/ /\ proceeds
           /\ ~o.dryRun /\ changes # <<>>
           /\ run' = [phase |-> "create", opts |-> o, changes |-> changes, synced |-> FALSE]
           /\ last' = NotEnded
  /\ UNCHANGED faults
  /\ UNCHANGED checkout
  /\ UNCHANGED world

Fault == faults < MaxFaults /\ faults' = faults + 1

\* git cannot be run, or a file cannot be read.
ReadFails ==
  /\ run = Idle
  /\ Fault
  /\ last' = Ended("refused", NoOptions, 0)
  /\ UNCHANGED <<run, forced>>
  /\ UNCHANGED checkout
  /\ UNCHANGED world

-----------------------------------------------------------------------------
(***************************************************************************)
(* atomicReplace, for the first of the changes that are left.              *)
(***************************************************************************)
Current == run.changes[1]

Interrupted == run' = Idle /\ last' = Ended("interrupted", NoOptions, 0)

\* os.CreateTemp, which picks a name that is not taken, and Chmod.
CreateTemporaryFixedName ==
  /\ run.phase = "create"
  /\ IF Current.file \in litter
     THEN Interrupted
     ELSE run' = [run EXCEPT !.phase = "write", !.synced = FALSE] /\ UNCHANGED last
  /\ litter' = litter \cup {Current.file}
  /\ UNCHANGED <<tree, disk, unflushed, faults, forced>>
  /\ UNCHANGED world
CreateTemporary ==
  /\ run.phase = "create"
  /\ run' = [run EXCEPT !.phase = "write", !.synced = FALSE]
  /\ litter' = litter \cup {Current.file}
  /\ UNCHANGED <<tree, disk, unflushed, last, faults, forced>>
  /\ UNCHANGED world

WriteTemporary ==
  /\ run.phase = "write"
  /\ run' = [run EXCEPT !.phase = "sync"]
  /\ UNCHANGED <<last, faults, forced>>
  /\ UNCHANGED checkout
  /\ UNCHANGED world

\* Sync and Close.
SyncTemporaryOmitted ==
  /\ run.phase = "sync"
  /\ run' = [run EXCEPT !.phase = "rename"]
  /\ UNCHANGED <<last, faults, forced>>
  /\ UNCHANGED checkout
  /\ UNCHANGED world
SyncTemporary ==
  /\ run.phase = "sync"
  /\ run' = [run EXCEPT !.phase = "rename", !.synced = TRUE]
  /\ UNCHANGED <<last, faults, forced>>
  /\ UNCHANGED checkout
  /\ UNCHANGED world

\* Until its directory is synced a power loss may undo the rename, and if the
\* data was not flushed the name may be all that survives.
Rename ==
  /\ run.phase = "rename"
  /\ run' = [run EXCEPT !.phase = "syncDirectory"]
  /\ tree' = [tree EXCEPT ![Current.file] = Current.after]
  /\ unflushed' = IF run.synced THEN unflushed \ {Current.file} ELSE unflushed \cup {Current.file}
  /\ litter' = litter \ {Current.file}
  /\ UNCHANGED <<disk, last, faults, forced>>
  /\ UNCHANGED world

\* The next change, or the end of the run (of the number of files updated only
\* whether it is zero is kept).
Advance ==
  IF Len(run.changes) = 1
  THEN run' = Idle /\ last' = Ended("success", run.opts, 1)
  ELSE run' = [run EXCEPT !.phase = "create", !.changes = Tail(@)] /\ UNCHANGED last

\* Only os.ErrInvalid is tolerated, which Sync returns for a nil handle; what a
\* platform without directory sync answers is a system error, no os.ErrInvalid.
syncDirectory ==
  /\ run.phase = "syncDirectory"
  /\ IF dirSync THEN Advance ELSE Interrupted
  /\ disk' = IF dirSync THEN [disk EXCEPT ![Current.file] = Current.after] ELSE disk
  /\ UNCHANGED <<tree, unflushed, litter, faults, forced>>
  /\ UNCHANGED world

atomicReplace == CreateTemporary \/ WriteTemporary \/ SyncTemporary \/ Rename \/ syncDirectory

\* A step fails and the run returns its error; the deferred removal of the
\* temporary file may fail as well, which nobody is told.
ReplaceFails ==
  /\ run # Idle
  /\ Fault
  /\ Interrupted
  /\ litter' \in {litter, litter \ {Current.file}}
  /\ run.phase = "create" => litter' = litter
  /\ UNCHANGED <<tree, disk, unflushed, forced>>
  /\ UNCHANGED world

\* The process dies: what it wrote stays, the temporary file too.
Kill ==
  /\ run # Idle
  /\ Fault
  /\ Interrupted
  /\ UNCHANGED <<forced>>
  /\ UNCHANGED checkout
  /\ UNCHANGED world

\* So does the machine: a rename that was not synced may be undone, and of the
\* temporary files any may be left.
PowerLoss ==
  /\ Fault
  /\ \E undone \in SUBSET {f \in Tracked : tree[f] # disk[f]}, torn \in SUBSET unflushed :
       tree' = [f \in Tracked |-> IF f \in undone THEN disk[f] ELSE IF f \in torn THEN Torn ELSE tree[f]]
  /\ disk' = tree'
  /\ unflushed' = {}
  /\ litter' \in SUBSET litter
  /\ Interrupted
  /\ UNCHANGED forced
  /\ UNCHANGED world

-----------------------------------------------------------------------------
(***************************************************************************)
(* The operator.                                                           *)
(***************************************************************************)
\* git restore and git clean.
Restore ==
  /\ run = Idle
  /\ ~requireCleanWorktree
  /\ tree' = committed
  /\ disk' = committed
  /\ unflushed' = {}
  /\ litter' = {}
  /\ last' = NotEnded
  /\ UNCHANGED <<run, faults, forced>>
  /\ UNCHANGED world

\* The first commit of the project, of the result of a run without --force.
Commit ==
  /\ run = Idle
  /\ project = NoOptions
  /\ last.result = "success" /\ ~last.opts.force
  /\ committed' = tree
  /\ project' = last.opts
  /\ last' = NotEnded
  /\ UNCHANGED <<dirSync, run, faults, forced>>
  /\ UNCHANGED checkout

Next ==
  \/ \E o \in Options : Run(o)
  \/ ReadFails \/ atomicReplace \/ ReplaceFails \/ Kill \/ PowerLoss
  \/ Restore \/ Commit

Spec == Init /\ [][Next]_vars

\* The process runs: a step of it that can be taken is taken.
Fairness == WF_vars(atomicReplace)

FairSpec == Spec /\ Fairness

-----------------------------------------------------------------------------
\* A slug and an owner that agree with the module path, if it names any.
Aligned(o) == o.slug = projectSlug(o.module) /\ githubOwner(o.module) \in {<<>>, NewOwner(o)}

SameIdentity(o, p) == [o EXCEPT !.dryRun = FALSE, !.force = FALSE] = [p EXCEPT !.dryRun = FALSE, !.force = FALSE]

\* "the source template identity is gone" (docs/template-smoke.md): when a run
\* without --force reports success for a checkout of the template, every name in
\* every text file is the new identity's, everything else is as it was, and no
\* temporary file is left, whatever was interrupted, forced or restored before.
SuccessIsComplete ==
  last.result = "success" /\ ~last.opts.force /\ project = NoOptions =>
    tree = Renamed(last.opts) /\ litter = {}

\* atomicReplace: whatever happens no file is ever half written, and when a run
\* without --force on a checkout of the template reports success a power loss
\* undoes nothing that it wrote.
FilesWhole ==
  /\ \A f \in Tracked : tree[f] # Torn
  /\ last.result = "success" /\ ~last.opts.force /\ project = NoOptions =>
       \A f \in Tracked : tree[f] # committed[f] => disk[f] = tree[f]

\* "an otherwise identical second bootstrap" (makeReplacements) changes nothing,
\* when slug and owner agree with the module path.
AlignedRerunIsIdle ==
  /\ last.result \in {"dry-run", "success"} /\ ~last.opts.force
  /\ project # NoOptions /\ SameIdentity(last.opts, project) /\ Aligned(project)
  => last.changed = 0

\* run and atomicReplace, where directories can be synced: a run that has begun
\* to write and is not disturbed any more writes every change and reports
\* success, whatever earlier runs left behind, their temporary files included.
UndisturbedRunSucceeds == run # Idle /\ faults = MaxFaults /\ dirSync ~> last.result = "success"

\* What the comment in syncDirectory says of the other platforms: "an
\* unsupported directory sync should not turn an otherwise atomic replacement
\* into a failure".
UnsupportedSyncTolerated == run # Idle /\ faults = MaxFaults /\ ~dirSync ~> last.result = "success"
=============================================================================
