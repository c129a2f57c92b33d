# kfuse in TLA+

Specifications, model-checking runs and machine-checked proofs for kfuse, a
branching overlay file system: a read-only lower directory, an in-memory upper
state, mutations committed to a Kafka log, file bytes in content-addressed S3
blobs, state images as checkpoints, and a best-effort writer lease.

## The system and its modules

| Part of kfuse | Source | Module |
|---|---|---|
| commit, checkpoint, resume, branch | `internal/session` | `Session` |
| the log and its failures | `internal/kafkalog` | `Session` (`Produce`, `Retry`, `Land`, `ReadEnd`, `Replay`, `Trim`) |
| images, provenance, index | `internal/registry` | `Session` (`PutImage`, `Restore`, `Nameable`) |
| writer lease | `internal/registry/lease.go` | `Lease`; one-step in `Session` (`Claim`, `Renew`, `ExpireLease`) |
| overlay state, `Check` and `Apply` | `internal/upper` | `Upper` |
| merged view and FUSE handlers | `internal/fs` | `Overlay`, `Requests` |
| extents, sizes, handles, reads | `internal/upper/apply.go`, `internal/fs/handle.go`, `extents.go`, `Open` in `node.go` | `FileData` |
| daemon, control socket, `kfuse umount` | `internal/daemon`, `cmd/kfuse/umount.go` | `Lifecycle`; one-step in `Session` (`Claim`, `Unmount`, `Crash`) |
| what sessions promise | (specification) | `Store`, `SessionStore` |

`PROJECT.json` lists every part, modelled or not, maps each definition to the
lines it translates, and lists the hazards with the properties that cover them.

**Session.** A process is one command holding a session object. Its record in
`proc` has the fields of the Go struct (`upper`, `seq`, `lastOffset`,
`savedOffset`, `diverged`, `leaseLost`) and a control point `pc`. Each remote
call is a step of its own: a commit is `Commit` (under the lock, up to the
append), `Produce` (the broker persists) and `AckCommit` or `CommitFails`; a
checkpoint is `Snapshot` and `SaveImage` or `SaveFails`; a resume is `Open`,
`ReadEnd`, one `Replay` per record, `ReplayDone`, `Claim`. Processes interleave,
and may crash, between any two. The overlay tree is abstract: constants `Check`
and `Mutate` stand for `upper.Check` and `upper.Apply`, so the proofs hold for
every such pair. `truth` (the state after each record), `poisoned` (sessions
with a durable record that `Apply` rejects) and `lineage.birth` are history
variables: no kfuse step reads them to decide anything.

`Faults` names what the environment does beyond crashing: `overlap`, `expire`,
`retry`, `late`, `half`, `future`, `trim`. Without any of them, appends that
fail may or may not have landed, uploads may fail or lose their response, and
processes die anywhere. Two of those restrictions stand for how kfuse is used:
without `overlap`, a mount of a session is not started while another process
mounts it; without `half`, a child is not opened before its `Branch` has ended.

**Upper and Overlay.** `Upper` has the four maps of the Go struct and one
operator per function of `apply.go` and `check.go`. `Overlay` adds the merged
view (`Present`, `Resolve`, `Listing`, `mergedEmpty`) and one action per
mutating handler. The history variable `tree` is the tree an ordinary file
system would have after the same requests. `mount`, chosen once, is the lower
tree together with the mix of requests its users make.

**Requests.** `Overlay` takes a request as one step. `Requests` splits it in
two: `Begin` resolves the path and checks the merged view, `Finish` is the
commit under the session's lock, with `upper.Check` again and a refusal when it
fails. Between the two other requests commit. What keeps requests apart is the
kernel (`Locked`, `Crosses`): parents, victims and files are locked for a
request, a directory that moves is not. `pending[h].at` follows the inodes of a
request as directories move, for the reference tree; the code keeps the path it
had. The move in go-fuse's inode tree, which follows the answer to a rename, is
part of `Finish`: a request that starts after the commit and before that move is
not represented.

**FileData.** The extent list of one file with `insertExtent`, `coalesce`,
`clipExtents`, `readWindow` and `mergeExtents`, for a lower file and for one
created in the session. `want` is the reference content. `handle` is what `Open`
returned for each descriptor: an `overlayHandle`, which resolves the file at
every read and write, or a `lowerHandle`, which reads the lower file itself. The
choice is made once, from the open flags and whether the file has a node;
`early`, a history field, marks read-only opens before the first write or
truncation, and handles without it are `Current`. The two loops of the
code are functions of the number of extents seen; `SortFunc` is the order by
offset, which is total because extents do not overlap.

**Store.** The abstract specification: durable trees, mounts that show one of
them alone, mutations that are durable before they are shown, children that
begin as a tree their parent had. `SessionStore` maps `Session` to it: a
session's state is the tree after its last durable record, a mount shows the
upper of its object from the moment the session is loaded. `Commit`, retries,
images, replay and leases are stutters; `Produce` is `Perform` or `Fork`,
`AckCommit` is `Answer`, the end of a replay is `Mount`.

**Lease.** The lease object and its mounts. A claim, renewal or release loads
the object and decides (`ClaimLease`, `RenewLease`, `ReleaseLease`), and writes
it in a second request (`putLease`, `DeleteLease`) that takes up to `Delay`
ticks, may fail, may fail although it landed (`PutFails`), and may land after
its process died (`LatePut`). Processes freeze and thaw. Time is kept as ages,
so behaviours are unbounded. `raced` records that two second requests overlapped
or somebody froze: a store without conditional writes cannot promise more.

**Lifecycle.** One `Serve` run. `main` is where `run` and `release` are; every
step that another goroutine can come between is a value of it. `own` is what the
run holds, `kernel` the mount with its requests in flight, `bg` the heartbeat,
the materializer and the asynchronous checkpoint, `ctl` the accept loop and its
connections, `handler` the signal goroutine. Unmounting fails while the mount is
in use. The three kinds of checkpoint share `ckptMu` (`MutexFree`). Control
connections are reused once closed; requests and ticks are unlimited.

## Runs

Passing runs:

| Run | Shows |
|---|---|
| `resume` | mounts and resumes, with retention dropping what an image covers: the log stays replayable, the writer shows all of it, images are never replaced, and `Session` implements `Store` |
| `branch` | parent and child on one partition: replays are accepted, images match their tags, objects their offsets, children their parents |
| `faults` | types, blob-before-log and image tags survive overlap, expiry, duplicate and late produces, with checkpoint commands beside the mounts |
| `overlay_agrees` | the merged view equals the reference tree for the request mixes where it does |
| `requests` | two requests in flight, unless a directory is renamed above one of them: the mount shows what an ordinary file system would, no commit is refused, and each commit is a step of `Overlay` |
| `file_kept` | extent lists are tidy, reads of a created file are exact, and no written or uncut lower byte is lost to a handle opened for writing or after the first change; the other handles read the lower file as it was |
| `lifecycle` | nothing is used after its release, a run leaves nothing behind, a mount that is gone ends its run, the first signal ends the run of an unused mount |
| `lease` | one writer and no false fence as long as nothing races and at most one renewal in a row fails; two writers, however they came about, end within two rounds of heartbeats |

Runs that refute a statement of the repository; `PROJECT.json` quotes each:

| Run | What the code does |
|---|---|
| `overlap` | loads a session before claiming its lease, and commits on the stale state |
| `overlay_unlink` | unlinking a written lower file shows the lower file again |
| `file_regrow` | shrinking and growing a lower-backed file shows bytes that were cut off |
| `lifecycle_signal` | a signal that found the mount busy is the last one the daemon acts on |

Further disagreements TLC shows on the same modules with other constants or the
property named. They have no configuration of their own:

| Setting | What the code does |
|---|---|
| `Faults = {"retry"}`, `NeverPoisoned` | the producer resends without idempotence; the copy stops every replay (`session.go:574`: "an event Apply would reject never becomes durable") |
| `Faults = {"half"}`, `WriterCurrent` | an unfinished branch opens as an empty session |
| `Faults = {"late"}`, `NeverPoisoned` | a produce given up on lands after the remount took its sequence number |
| `Faults = {"future"}`, `LineageExact` | a branch offset past the log's end is recorded as lineage |
| `Faults = {"trim"}` with a checkpoint command, `ImagesExact` | retention between choosing an image and replaying leaves a gap that is stored as an image |
| `requests` with `View = tree` for `SameAsOrdinary` | a request commits at the path its directory had before a rename (`merged.go:39` says that racing mutations are arbitrated and the loser is refused) |
| create and rename over a lower directory, `NothingLost` | renaming a lower directory with overlay children loses it |
| write and rename over two lower files, `ObjectsKept` | a rename onto a written file's old path changes its unwritten bytes (`LowerRel` is resolved through later redirects) |
| mkdir and rename over `SmallLower`, `ListingAgrees` | readdir lists a redirect below a whiteout, which lookup denies |
| `file_kept` with `ReadsBack(f, want)` for every handle in use | a handle opened read-only before the first write or truncation keeps reading the lower file: neither what is written through another handle nor a truncation shows (`node.go:370-372` says that reads, "including reads after a write", use the merging handle) |
| truncate over `SmallLower`, `ModesKept` | truncating a lower file sets its mode to 0644 |
| mkdir, unlink and rename over `SmallLower`, `NothingReappears` | renaming over an emptied lower directory shows its children again |
| rename alone over a lower directory with a file | a second rename out of a renamed directory redirects to a path the lower tree does not have |
| `lifecycle` with `cmd = "unmounted" => own.lease # "mine" /\ kernel.state # "dead"` | a SIGTERM before the handler is installed, or after it is detached, kills the daemon; `umount` reports success, the lease stays until it expires |
| `lease` with "a delete removes only one's own lease" | the check and the delete of `ReleaseLease` are two requests, so the lease of a mount that claimed in between is deleted (`lease.go:66`) |

What the passing runs leave out for this reason. `resume` and `branch` have
neither `retry`, `late`, `half` nor `future`: `NeverPoisoned` and `WriterCurrent`
are checked with retention only, `LineageExact` with no fault at all. `faults` has
resends and late landings, and checks there what holds in spite of them. In
`overlay_agrees` no mount has unlinks or writes together with renames over a lower
tree, and none renames a lower directory that has children, of the lower tree or
of the overlay: `NothingLost`, `ObjectsKept` and `ModesKept` say nothing of those.

The four members of `AgreeingMounts` leave out the request mixes that reach
these states over a lower tree; over an empty one all nine requests are taken
together. What `overlay_agrees` shows is limited to those mixes, and so is
`requests` to the six of `SharedMounts`.

### Bounds

Session runs use two processes, one or two sessions, and `MaxLog` 2 to 4
records per partition. Two processes are what a race needs; three records are a
start and two mutations, so an image can lie before, between and after them;
`resume` takes four so that a trimmed head, an image and a tail coexist. The
tree is one path with a node and a whiteout. `faults` has `MaxLog` 2 and one
kind of mutation, because four environment behaviours multiply the states.
Overlay runs create and rename to two names at depth two, or three names at
depth one (`named`): enough for a directory with a child beside a file, or for
a rename chain. `Fits` keeps renames within `MaxDepth`. The file runs use files
of at most four bytes and writes of up to three, so an extent can be split in
the middle, and two descriptors, a writer beside a reader. `overlay_unlink` allows deadlock: with only its requests the tree
may become empty, and then no request is possible.

`requests` has two requests in flight, names at depth two, and a directory
renamed at its own depth (`Level`). `lease` has two mounts, a heartbeat of three
ticks, requests of at most one and one failed renewal in a row (`MaxFails`): two
failures in a row and a late put are what a TTL of three heartbeats does not
cover. The code bounds neither the failures nor the time of a request, so
`OneWriter` and `NoFalseFence` hold of it as long as these bounds do.
`LeaseAssumption` asks for requests shorter than half a heartbeat; writers with
slower ones could renew past each other for ever. Clock skew between hosts is not
modelled. `lifecycle` has one request, one connection and one signal,
`lifecycle_signal` two signals and nothing else; both allow deadlock, because a
daemon ends.

### Fairness

Only `Lifecycle` has liveness properties. Its `Fairness` says that a goroutine
that can run does run and that a remote call returns, with an answer or an error:
weak fairness of `run` and `release`, of the signal goroutine, of the two loops
once they are due, of the accept loop once its listener is closed, and of every
request in flight. Checkpoints of connections and commits wait for `ckptMu` while
the materializer may take it again and again; they have strong fairness, because
Go's mutex hands over to a waiter that starves. Nothing is assumed of users,
signals, tickers, new connections or other writers. The other modules state
safety, and assume none.

## Proofs

All theorems hold for every value of the constants that the named assumptions
admit: any number of processes, mounts, names, requests. Where a theorem has a
hypothesis beyond them, it is named here.

**Session, every set of faults.** `SessionProofs` proves `TypeCorrect` and
`BlobBeforeLog`. The inductive invariant is `Sane`: types, the shape of a process
record at each control point, and blobs present for records in flight.
It also proves `ImageTagged`. The invariant for that,
`TagInv`, adds what a process knows of the tag its next image will carry
(`Tags`): a loaded session's offset is
that of a record it applied, an upload's tag names a durable record, a birth
image belongs to a session that has a parent. The log and the lineages only grow
(`Grown`), so a tag that was right stays right. `IInv` below is no help here: it
needs a mild environment.

**Session, no faults or retention.** The hypothesis is `Mild` (module
`SessionInv`): none of the faults, or `trim` where every command is a mount; the
table above shows what `trim` does beside a checkpoint command. The instances of
`branch` and `resume` are both mild. `SessionSafety` proves that `IInv`, together
with `Retains`, is inductive, and from it `NeverPoisoned`, `ReplayAccepted`, `ImagesExact`,
`ObjectExact`, `WriterCurrent`, `LineageExact` and `ImagesKept`. The properties
alone are not inductive. `IInv` adds that `truth` is the replay of the log
(`TruthIsReplay`); that at most one process mounts a session or bears a child
(`Exclusive`); what a process knows while it replays, appends, bears a child or
uploads (`Holds`, `Replays`, `Owns`, `Bears`, `Uploads`); and that no replay
crosses the SessionStart of a child, whose state comes from its first image
(`ImagesSound`). There is one lemma per action. `SessionProofs` also has what
every action needs (what a changed process record, or one more record in the
log, leaves alone); `SessionMoves` has the steps that append no record, resume
and images among them; `SessionSafety` has the commits, the append and retention.

`Retains` is what a resume needs of retention. If all images of a session lie
before offset n, and n is not past the head of its partition, then the session is
the same after n records as at the head (`Covered`): a dropped record is covered by
an image of its own session, so the ones between belong to others. A mount
that is about to read the log started from the newest image (`Newest`), and stays
so because no one else stores images of its session (`NewestOthers`, from
`Exclusive`). So `ReadEnd` may skip to the head (`IInvReadEnd`).

`SessionSafety` also proves `SessionImplementsStore`, again from `Mild`: under
`IInv` every step of `Session` is a step of `Store` or changes nothing `Store`
sees (`NextImplements`). Most steps either hide a process, keep what it shows, or
complete it (`Hides`, `Keeps`, `Completes`); the append is the one that changes
durable trees (`ProduceImplements`), and needs that the writer shows all of its
session and that nobody shows a child before its birth. TLC checks the same
refinement in `resume`; it also holds of the `branch` instance, where it takes too
long to be kept.

**Lease.** `LeaseProofs` proves `OneWriter`, `NoFalseFence` and `SplitEnds` from
the hypothesis `Outlives`: a round of renewals, failed ones included, and the
requests before and after it take no longer than the TTL. With the code's
heartbeat of 15 s and TTL of 45 s that allows one failed renewal in a row and
requests of less than 7.5 s. For the first two `NoRaceInv` says, as long as nothing
raced, how old the lease and each request in flight can be at each place of a
mount, so that a running writer's lease is never found expired. `SplitEnds` holds
after races as well, so it has an invariant of its own. `SplitInv` bounds the time
two writers have run together by the ages of their requests and heartbeats: until
a put lands, every writer is about to renew (`Unsettled`); once one has, the
others loaded the lease before it, and are fenced when they load it again
(`Settled`).

**Overlay.** `OverlayProofs` proves

* `TypeOK`, for every mount and mix of requests;
* `NothingReappears`, `NothingLost` and `ObjectsKept` for mounts that are
  `Agreeing`: over an empty lower tree with all requests (`Bare`), or over any
  lower tree without renames, and without unlinks where files are written
  (`Steady`);
* `ModesKept` for those where, in addition, no lower file is truncated
  (`KeepsModes`);
* `ListingAgrees` for mounts over an empty lower tree or without renames
  (`Straight`), whatever else is requested.

The hypotheses are where the code does agree with an ordinary file system: each
one that is left out is a row of the tables above. The properties speak of the
view and the reference tree; what makes them inductive is `OverlayInv`. It says
why the view is right: there are no redirects, the reference tree has a directory
above every entry, view and tree agree at every path, reached or not, and a node
has no lower twin that its removal would uncover, unless it was made by writing
to that twin (`NodeSound`). All handlers but `Rename` change the state at one
path (`OnlyAt`, `AgreeAt`). The rename over an empty lower tree moves the nodes
exactly as it moves the tree (`NodesMoved`, `TreeMoved`); `mergedEmpty` and the
descendant checks give that source and destination are apart (`Apart`), which
`MoveMap` needs. TLC checked `OverlayInv` on four mounts, one of them empty with
all nine requests and one neither `Bare` nor `Steady` (143,893 states).

**Requests.** `RequestsProofs` proves, for any number of requests in flight on an
`Agreeing` mount, `NeverRefused`, `CommitsAtomic` and, where modes are kept too
(`KeepsModes`), `SameAsOrdinary`. `CommitsAtomic` makes `Requests` an
implementation of `Overlay` as long as no directory is renamed above a request
in flight (`RequestsImplementOverlay`), so that what is proved of `Overlay`
carries over. That nothing is refused does not survive a step by itself: it must
be known why a request that was let through is still good. `RequestsInv` says it
of the reference tree. The tree takes every request in flight (`Takes`: what the
handler asked, asked of the tree), and the paths locked for two of them are
apart (`Locks`). Whether a tree takes a request depends on few paths (`Minds`),
each of them locked or in a locked directory (`LocksGuard`); a commit of another
one changes the tree at paths it has locked itself, or moves a directory above
(`BesideMake`, `BesideChange`, `BesideRemove`, `BesideRename`). `Asked` and
`Answered` lead from the merged view to the tree and back, and rest on the
invariant of `Overlay`. TLC checked `RequestsInv` on the `requests` instance
(140,023 states).

**FileData.** `FileDataProofs` proves `ExtentsTidy`, `BornExact` and `WritesKept`
for any file size, write size, data and number of handles. The properties speak of
reads; `FileInv` speaks of the list, and `HandleInv` of the handles: the
`lowerHandle`s are those of early opens. It is tidy, and at every offset the content is what the one
extent there says or, where there is none, a zero or the lower byte that shows
(`Right`). The lemmas say what each operator makes of a tidy list: the pieces
that `insertExtent` leaves and the new extent are apart, sorting puts disjoint
extents in order (`Sorted`, by counting those before), `coalesce` keeps every
byte and leaves no neighbours, `clipExtents` keeps what is before the end. The
loops are followed by induction, as the absence of a least iteration where the
claim fails (`Least`). TLC checked `FileInv` and `HandleInv` on the `file_kept`
instance (46,092 states).

**Lifecycle.** `LifecycleProofs` proves `NothingUsedAfterRelease` and `CleanExit`
for any number of requests, connections and signals. `LInv` says, for each place
of the run, what it holds and what has stopped: for example that past the join of
the loops there is no heartbeat left to put the lease back, and that a run
without a token has neither a heartbeat nor a lease. TLC checks `LInv` on the
`lifecycle` instance (149,357 states).

Assumptions: `ConstantsAssumption`, `TreesClosed` and `CheckBoolean` of
`Session` type the constants and say that an accepted mutation yields a tree;
`LeaseAssumption` of `Lease` relates TTL, heartbeat and request time as in the
code, with requests shorter than half a heartbeat; `DepthAssumption` of `Upper`
and `MountAssumption` of `Overlay` say that a lower tree is a tree of paths;
`FileAssumption` of `FileData` types its sizes; `BoundsAssumption` of `Lifecycle`
types its bounds. TLC evaluates them on every
run of these modules.

`IInv` also holds as an invariant of the `branch` instance (1,318,229 states), and
with `Retains` of the `resume` instance (248,786 states) and of two mounts of two
sessions on one trimmed partition (603,103 states). The configurations leave them
out: they follow from the theorems, and take longer than the properties.

Only model-checked:

* renames over a lower tree, which the fourth member of `AgreeingMounts` has:
  the invariant would have to say which redirects, whiteouts and twins can occur
  together;
* the last member of `SharedMounts`, which renames over a lower tree, for the
  same reason;
* liveness of `Lifecycle`.

Out of the prover's reach: liveness and `ENABLED`, and recursive operators. The
library's induction rules are too, because they take the claim as an operator;
a least counterexample (`Least` of `FileDataProofs`) takes their place.

## Not modelled

* *Serialisation* (`internal/upper/serialize.go`) writes the four maps, sorted,
  and reads them back. A model would be the identity by construction.
* *Paged image listing*: `LatestStateImage` reads one page of keys, a thousand
  images. `Session` lists all of them.
* *Writes that bypass the kernel's inode lock*: `handle.Write` reads the size
  before it commits; `Requests` has the lock, `FileData` takes a write as a step.
* *Open handles of removed or renamed files, inode identity, attributes*: the
  handlers are modelled by path; `FileData` has the handles of one file that
  stays where it is.
* *The kernel's page cache*: a read is what the handle answers. Pages the kernel
  still holds may hide it.
* *Building the daemon*: detaching with its ready pipe, the client stack, the
  socket's path and permissions, topic creation and partition refresh.
* *No state of their own*: error numbers, mount options, configuration, the
  generated event code, S3 client set-up, counters and logging.

`Session` keeps `Check` and `Mutate` abstract, so its theorems hold for `Upper`'s
as for any others with `TreesClosed`; an instance over `Upper` would only multiply
states. `Lease` and `Lifecycle` see of each other what an environment action
says (`OtherWriter`, `Crash`), and `Session` has both in one step.
