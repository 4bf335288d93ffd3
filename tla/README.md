# SCAMP in TLA+

SCAMP reads the source catalogues of many overlapping astronomical exposures,
matches them with a reference catalogue, cross-identifies the detections, solves
for a global astrometric and photometric calibration, and writes calibrated
headers and merged catalogues. It is a C program, one process, with POSIX threads
in the four phases that are worth it. The modules here model the parts whose
correctness rests on the order of steps -- of threads, of links being cut and
tied, of tables changing while they are walked -- and leave the floating-point
astronomy aside. Paths below are relative to `src/scamp/src`.

## The system

`makeit.c` runs the phases one after the other for the whole input:

1. load the catalogues (`field.c`, threaded), label their instruments;
2. group the fields on the sky (`fgroup.c`);
3. adjust mosaics (`mosaic.c`, threaded, once per instrument label);
4. fetch reference catalogues (`astrefcat.c`, `url.c`);
5. match each field with the reference (`match.c`, threaded);
6. two or three times: reproject (`astrsolve.c`), cross-identify (`crossid.c`,
   `chealpixstore.c`), clip outliers (`astrstats.c`), solve (`astrsolve.c`, the
   normal equations being filled by threads);
7. photometric solution and clipping (`photsolve.c`), merging (`merge.c`), proper
   motions (`proper.c`), output (`catout.c`, `header.c`, `xml.c`, plots).

| component | state | operations | how it meets the others | what is hard | what makes it correct |
|---|---|---|---|---|---|
| thread gate, `threads.c` | counter, two mutexes, two condition variables | init, sync, end | every pool starts and stops its threads through two gates | wake-ups, re-use by a fast thread while slow ones sleep | nobody leaves before all have arrived; everybody leaves |
| loading pool, `field.c` | indices of the next file and of the next file to label, ready flags, end flag, instrument tables | load, report, label, take, idle | fills `fields[]` for all later phases; labels index the user's MOSAIC_TYPE and STABILITY_TYPE | files finish in any order, labels must not | every file once; labels as if read in order; complete when the master goes on |
| grouping, `fgroup.c` | table of groups, flags, back pointers of fields | place a field, fuse groups | all later phases go group by group | a table compacted while walked | groups partition the fields and are the connected parts of the sky |
| mosaic pool, `mosaic.c` | detector cursor, view flags, static from pool to pool | one pool per instrument; adjust a detector in all its fields | shares the gates' life cycle; moves the calibration matching starts from | what one pool leaves behind the next one finds | every set once, before it is matched |
| matching pool, `match.c` | group and field cursors, display cursor, sort mutex and key | match a field, show in order | shares the gates' life cycle; `fft.c` plans under a mutex | order of display, sorts with a global key | every field once, shown in order, sorted along its own axis |
| reference catalogue, `astrefcat.c`, `url.c` | servers, a buffer, the transfer | open, read lines, give up a server | its sources are field -1 of a group | answers in pieces, cut short, from the wrong page | whole lines, the first server that answers |
| detections, `samples.c` | arrays of structs with `nextsamp`, `prevsamp`, `msamp` | read, sort in place, unite sets | the pointers are used by every later phase | pointers into arrays that are sorted in place | links survive |
| pixel store, `chealpixstore.c` | AVL tree of pixels, each an array of detections | add, get, sort, binary searches | candidate lists for cross-identification | boundaries, widths of integers | every candidate is found |
| cross-identification, `crossid.c` | links of all detections | match, steal a partner, search again, move references | its chains are what solving, clipping and merging work on | mutual recursion, partners lost and found again | mutual links, a stable result, termination |
| normal equations, `astrsolve.c` | indices of blocks of coefficients, matrix, counters of constraints, three nested indices, striped mutexes | assign indices, take a set, add to rows, trim, read back | reads the chains, writes the matrix the solver takes | additions to the same row from several threads; indices that move | no set twice or never, no addition lost, own coefficients read back |
| photometric fields, `photsolve.c` | PHOTOM and PHOTLINK flags | make dummies of fields nothing links to a photometric one | follows the chains before and after clipping | a flag set for one field counts for the next | every field is linked to a photometric one |
| proper motions, `proper.c` | the flags of detections, sums and the last solution | fit, try each detection as bad, flag the worst | its flags go into the catalogues | state left by a trial | flags only where the fit improves, the motion is that of the good detections |
| clipping, `astrstats.c`, `photsolve.c` | links | unlink outliers | between cross-identification and solution, and before merging | a list cut while walked | all outliers go, nothing else |
| merging and output, `merge.c`, `catout.c` | merged sources, `msamp` | make a source per chain, write | walks the chains twice, at different times | the chains may have changed between | each detection in one source |
| preferences, FITS and WCS libraries, plots, XML | | | input, output, geometry | | |

## Modules

| module | models | built on |
|---|---|---|
| `Rendezvous` | what a thread gate promises: an abstract specification | |
| `Gate` | `threads.c`, one action per statement that other threads can notice; implements `Rendezvous` | `Rendezvous` |
| `GateProofs` | theorems about `Gate` | `Gate` |
| `ThreadPool` | the life of a pool: creation, two gates, end flag, join | two instances of `Rendezvous` |
| `LoadPool` | the loading pool and `label_field` | `ThreadPool` |
| `ThreadPoolProofs` | what every pool keeps, for the proofs about pools | `ThreadPool` |
| `LoadPoolProofs` | theorems about `LoadPool` | `LoadPool`, `ThreadPoolProofs` |
| `Exposures` | groups, fields, sets and labels, and the order of the loops over them | |
| `Calibration` | the settings and the calibration of every set, which the pools share | `Exposures` |
| `MosaicPool` | the pools that adjust mosaics | `ThreadPool`, `Calibration` |
| `MatchPool` | the pool that matches fields with the reference | `ThreadPool`, `Calibration` |
| `AstrSolve` | where coefficients are kept, trimming, reading back | `Exposures` |
| `FillPool` | the filling of the normal equations | `ThreadPool`, `AstrSolve` |
| `Pipeline`, `MCPipeline` | `makeit.c` from the grouped fields to the solution: the three pools one after the other | `MosaicPool`, `MatchPool`, `FillPool` |
| `FoldLemmas` | induction over numbers and finite sets; what sums, folds, concatenations, ranks and walks are | |
| `PipelineProofs` | theorems about `Pipeline` | `Pipeline`, `ThreadPoolProofs`, `FoldLemmas` |
| `PixelStore` | `chealpixstore.c` | |
| `CrossId`, `MCCrossId` | `crossid.c` on the store | `PixelStore` |
| `CrossIdProofs` | theorems about `PixelStore` and `CrossId` | `CrossId`, `FoldLemmas` |
| `FieldGroups` | `group_fields` | |
| `FieldGroupsProofs` | theorems about `FieldGroups` | `FieldGroups` |
| `ProperMotion` | `proper.c` for one source | |
| `Sources`, `MCSources` | one group of fields in `makeit.c` 255-519, from the first reprojection to the catalogues: `reproj_fgroup` with its sort, `astrclip_fgroup`, the choice of photometric fields, `photclip_fgroup`, `merge_fgroup`, `astrprop_fgroup`, `writefullcat_fgroup` | `ProperMotion` |
| `SourcesProofs` | theorems about `Sources` and `ProperMotion` | `Sources`, `FoldLemmas` |
| `RefCat`, `MCRefCat` | `get_astreffield` over the network, `url.c` | |

Definitions named `...Late`, `...Early`, `...Stale` and the like, with a comment
that starts with "Defect:", are not part of any specification. Each is a wrong
version of the definition that follows it; putting it in place of that definition
breaks one of the properties, and so shows that the property depends on the code.

### Gate

`pc[t]` is the statement of `threads_gate_sync` thread `t` is about to execute. The
variables `ngate`, `mutex`, `block`, `condvar`, `last` are the fields of
`threads_gate_t`; a condition variable is the set of its sleepers, a mutex its
holder. `called` and `passed` count calls and returns; `opened` counts openings.
`Wake` and `WakeLast` are the second half of `pthread_cond_wait`. The callback
`func` is NULL in every use. A statement that only its thread can notice is part of
the step before it. `Gate!PromiseKept` is refinement of `Rendezvous` with `arrived`
the calls and `departed` the returns.

### ThreadPool, LoadPool

The pools have the same skeleton in four files. `ThreadPool` states it once, as
actions that the pool modules conjoin with their own variables. The two gates are
instances of `Rendezvous`: a call is `Arrive`, a return is `Depart`. The end flag,
a static variable, is clear in `LoadPool`, whose pool is the first and only one of a
process (`makeit.c:139`); the pools of `Pipeline` find theirs as it was left. `test` is the `while (!endflag)` of a worker, `section` the lock that
follows it; the section up to the unlock is one step in most pools, and several in
`LoadPool`, where each field labelled is a step.

`LoadPool!Report`, `View`, `Take`, `Idle`, `Load` are `pthread_load_field`;
`ResetIndices` is the master's reset. `Label` is `label_field`, with the tables of
instruments, their limits, and `error()` ending the process (`failed`). Which
instrument a file was taken with is chosen in `Init`.

### Pipeline: MosaicPool, MatchPool, AstrSolve, FillPool

`Pipeline` extends the modules of the pools, so that it has the variables and actions of
all of them; `stage` is where `makeit` is. `wcs[s]` lists the calibrations set `s` went through, so
that the order of the phases and of the pools is visible in it. Each pool starts with
`NewPool`: new threads and gates, static variables as they were left. What the user
sets (`mosaic_type`, `match_flag`, `stability_type`) is chosen in `Init`.

In `MosaicPool` a detector is taken with `TakeDetector`, and `AdjustSet` moves the sets
at that place in all fields of the instrument. In `MatchPool` the worker that takes
a field gets the list of what `match_field` does to it: align, two sorts, refine, for
each set of a LOOSE mosaic or for all together; `Sort` and `Sorted` are the call and
return of `qsort` under `match_sortmutex`. `View` reports and moves the display cursor.

`AstrSolve` computes the indices of the blocks of coefficients as the two walks of
`astrsolve_fgroups` do, shrinks the equations as its trimming does, and reads back
what `mat_to_wcs` reads; a column of the equations is known by the place it had when
they were filled. In `FillPool` a worker that takes a set gets the list of the locked
regions `fill_astromatrix` will go through for it, worked out by `SetUpdates` from the
chains that end in the set; `Read` locks and reads, `Write` adds, writes back and
unlocks. The contributions are the number 1.

### PixelStore, CrossId

`PixelStore` keeps the tree of `chealpixstore.c` as it is in memory -- root, children,
parent, height and imbalance of each node -- and `Inserted` is `pixelAvlInsert` with its
rotations. A pixel id and a `long` have sizes of their own (`IdBytes`, `LongBytes`): the
tree compares ids as `long`, and `pixelids` is enlarged in units of `long`. Both are 8
in the run; with a 2-byte id and a 1-byte long `StoreSound` fails, as it would in a
build for a platform whose `long` has 32 bits.

`next` and `prev` are `nextsamp` and `prevsamp`. `AddSample` and `SortPixels` fill and
sort the store, `order` is the walk over its pixels that both main loops make. `stack`
holds the calls of `cross_sample` in progress with the candidates each has left;
`Refuse`, `Link` and `Return` are a call of `crossmatch` without and with a new link,
and the return of `cross_sample`. The sky is a line, so that a pixel has two
neighbours rather than eight. `NSides` is the computation of `CrossId_run` in integers,
and `PixelSide` the width that follows from it.

### FieldGroups

Which fields overlap is an arbitrary symmetric relation chosen in `Init`. `NewGroup`
and `Join` place a field, `Fuse` and `PassOver` are the turns of the loop that fuses
groups. `fgroup[f]` is the back pointer of a field; groups have an identity so that
a pointer to a freed group is visible. `frame_wcs` and the distances, by which the
code decides on overlaps, are geometry.

### Sources

The arrays of detections are *places*; `who[p]` is the detection in place `p`.
Links, and the pointers from detections to merged sources, are places and indices, as
in the code they are pointers; so `Reproject`, which sorts the structs of each set,
moves the links with the structs and leaves alone what points to them. `at` is the
step of `makeit`, `Makeit` the set of pairs of a step and one that may follow it.
Lines 459-489 are not among them: the keyword that would set their flag is commented
out in `preflist.h`. `CrossIdentify` makes any links of the form that `CrossId` shows
`CrossId_run` leaves (`Linkings`), so that no choice of positions or radius limits
the runs. Solutions (`sky`, `mag`) and clipping thresholds (`clip`) are free choices
too: the code computes them from the whole group. `AstrClip` and `PhotClip` are one
turn of the clipping loops, the visit of one chain. `Walked` is their walk, one detection a
step: an outlier is unlinked (`LookedAt`) and the walk goes on along the `prevsamp` it has
saved, in `astrclip_fgroup`, or along the one it has just cleared, in `photclip_fgroup`
(`Passed`). Whether `astrclip_fgroup` looks at the reference is read from the links the walk
has left (`sampr->nextsamp`, `astrstats.c:551`). `visit` is a history variable: `beyond` is
what lay past the threshold, `out` what was unlinked, `kept` of how many the mean was
that the reference was compared with. The astrometric and the photometric labels of a field
are inputs of their own, as their keywords are. `PhotSolve` is the choice of dummy photometric fields, `photom` which
fields are photometric and which PHOTLINK. `ProperMotion!Motion` works out, for each
source, which detections `astrprop_fgroup` flags and which of them the motion it
writes goes through; trials are compared as `proper.c:351` does, by products of chi2 and
degrees of freedom, and `Roundings` is what rounding leaves of a chi2 that is zero: one sign,
or nothing, for the fit without each detection. Positions have one dimension, a field has one set, and the
reference catalogue is in use.

### RefCat

A stream is a sequence of tokens. `Open`, `Fill`, `ReadLine` and `CloseFile` are the
functions of `url.c`; `Perform` is libcurl, which delivers pieces of any size and may end
the transfer anywhere. `Greeting`, `NextServer`, `Row` and `Finish` are
`get_astreffield`, which takes the end of the transfer for the end of the catalogue.

## Runs

| run | bounds | question |
|---|---|---|
| `gate` | 4 threads, 3 calls each | are threads kept together, is nobody left asleep, is `Rendezvous` implemented |
| `loadpool` | 2 workers, 3 files, 3 astrometric and 2 photometric instruments, tables of 2 | labels in input order, every file once, complete at the stop gate, no race on the end flag, the pool ends |
| `pipeline` | 2 workers, 4 fields with 5 sets in 2 groups, 2 instruments, 4 settings, chains across sets, 2 coefficients per block, 2 mutexes per array | calibrations in order, each once; display in order; the sort key held; every set filled once, no addition lost; own coefficients read back; the pipeline ends |
| `solve_trim` | the same, one exposure without matched detections | own coefficients read back: no |
| `refcat` | 2 servers, 7 streams, lines of 3 tokens, pieces of 2 | lines whole whatever the pieces, the first answer taken |
| `crossid` | 5 detections, 2 fields and references, 4 positions, 2 epochs; and 6 pixels in every order of creation | a sound store, mutual links, stability, references first, bounded recursion, termination |
| `crossid_nsides` | the same | is no match lost to the pixels: some are |
| `fieldgroups` | every overlap of 5 fields | partition; connected parts as long as a newcomer links at most two groups |
| `fieldgroups_linked` | the same | connected parts always: no |
| `sources` | 4 detections in 3 fields and a reference, 2 solutions, 2 orders of epochs, 2 labellings, 2 thresholds, 2 sets of photometric fields, with and without flags | links are good whenever followed, clipping only cuts and leaves no astrometric outlier, positions are fresh, every field is linked to a photometric one, one source per detection, bad detections are flagged where that helps, the catalogues agree |
| `sources_photclip` | the same | does `photclip_fgroup` take all outliers out: no |
| `sources_motions` | the same | is the motion written that of the good detections: no |

Why these bounds are enough to be interesting:

* Four threads and three calls let a fast thread re-enter the gate while others
  sleep in the previous round, with a third round behind it. The proofs cover all
  other numbers.
* With two workers and three files a worker must report, label for the other and
  come back; three instruments overflow a table of two.
* The shape of `pipeline` has a field with several sets, a group with several
  fields, several groups, and an instrument with several fields, so that each of the
  nested indices wraps; the groups differ in the latitude axis, so that two workers
  want different sort keys; two blocks of rows share a mutex and chains of different
  sets share a row. The four settings use every mosaic type and stability type.
  Mixtures of stability types in which an EXPOSURE instrument comes before an
  INSTRUMENT one are not among them.
* The streams of `refcat` have a newline where a piece ends and where it does not, a
  line that is longer than the buffer, and no newline at the end.
* Four positions lie in three pixels, with pairs in the same pixel, in neighbouring
  ones, beyond the radius, and within it but two pixels apart; two epochs let
  fields be simultaneous or not; two references can be in one chain. Six nodes are
  the least tree in which a double rotation moves an inner grandchild.
* Three groups that a fourth field links, and a fifth after it, are the least in
  which the fusion loop can skip a group and the flag it leaves is used again.
* In `sources` a chain can have three detections and a reference, so that one in the
  middle can be an outlier, or several, or all; the two solutions put the two
  detections of a field in opposite orders, so that the sort swaps them; a group is
  merged once or twice. Epochs are distinct and a motion may lose up to two
  detections, so that it can settle at once, after one or two turns, or never. What rounding
  leaves of an exact fit is below zero for all trials, or differs between them.

`CHECK_DEADLOCK FALSE` is set because each of these programs really stops: the bound
on calls is used up, the pool has been joined, the links or groups are complete, the
catalogue is written.
That they do not stop earlier is what `AllPass`, `Ends` and `Terminates` say.

**Fairness.** Threads: weak fairness of each thread's own steps, that is, a thread
that can run is run; a thread is not obliged to call the gate. In `LoadPool`
this includes that reading a file ends. Mutexes are not assumed fair beyond that,
and do not need to be. `CrossId` is sequential: weak fairness of `Match` says that
the program runs on once the store is filled. `RefCat` and `Sources` state no
liveness: a server may be silent for ever.

## What is proved

For every number of threads (at least two) and every number of calls, `GateProofs`
proves that the gate is typed, that `Synchronised` and `LastOutReleases` hold, and
that every step is a step or a stutter of `Rendezvous`. `Synchronised` is not
inductive: from a state where it holds, threads could be anywhere. The inductive
invariant adds who holds which mutex, that `ngate` is the number of threads inside,
and how an opening drains: from the broadcast to the last return each thread inside
is one call behind `opened`, and while anyone is, either the opener holds `block`,
or the opener is alone inside and holds `mutex`. So no newcomer can be counted in.
The assumptions are that the threads are a finite set of at least two and that
the holder of a free mutex is not one of them.

For every number of fields and every overlap relation, `FieldGroupsProofs` proves
that there are never more groups than fields (the table has that many entries) and
`Partition`. The invariant adds that groups in use are different allocations, that
no more were made than fields have been placed, and that the fusion loop is past
the group the newcomer went to, so that a group is never fused with itself.
`PairsLinked` needs more (`LinkInv`): as long as no newcomer has linked three groups, one
group at most is flagged and not yet passed, groups that are not have no overlap with
any other, and each group is one piece. With three the loop skips one and the
invariant is lost, which is what `fieldgroups_linked` shows.

For every number of workers (a finite set, not empty), files, instruments and every
limit of the tables, `LoadPoolProofs` proves the type invariant of the loading pool --
indices and labels stay within arrays of `nfield` entries -- and all safety properties of
the run `loadpool`. The gates enter as what `Rendezvous` promises, and `Gate` implements
that. The invariant has three parts. The life cycle (`PoolInv` of `ThreadPoolProofs`, which
all pools share): what a thread has behind it, in calls and returns of the gates, is known
from where it is, and nobody has returned more often than everybody has called;
`EndflagRaceFree` follows. The work: a file taken belongs to one worker; it is loaded, then
reported by that worker before it can go to the stop gate; when the mutex is free nothing
is left that could be labelled; a worker at the stop gate means that no file is left.
`CompleteAtStop` follows, and would not without any one of these. The order: the tables
list the instruments of the fields labelled so far by the first file they appear in, so
that a place in a table is the rank of the instrument among all files, and
`LabelsFollowInput` follows.

For every shape of groups, fields and sets, every labelling of instruments, every settings,
chains, latitude axes, numbers of workers, coefficients and mutexes, `PipelineProofs` proves
all the safety properties of the run `pipeline`. `Life` says that a pool is in the
middle of its life or that there is none yet; everything else rests on it.

* `FilledOnce` from `Filling`: the sets counted as filled are those the three nested indices
  have passed, in the order of the loops, and a worker at the stop gate means that they
  have passed all. That one step of the indices passes one set (`AdvancePasses`) is where the
  boundaries of fields and groups enter.
* `SortKeyHeld` from `SortLocked`: who is inside `qsort` holds the mutex, has a sort to do
  next, and has set the axis to that of its field.
* `NothingLost` from `Accounted`: for every cell, what it holds, what the workers at work have
  still to add and what the sets not taken will make them add is what is due; and a
  worker that holds a mutex has read what is still there. The second needs that a
  cell has one mutex (`LockOf`): every list of updates that the chains can call for takes,
  for each cell, the mutex of that cell. A row has one mutex only if it belongs either to
  instruments or to exposures. The theorem therefore has a hypothesis, `ExposuresLast`: no
  instrument of type EXPOSURE has a label before one of another type. It is not a
  convenience: with labels the other way round `astrsolve.c:279` makes the blocks of an
  exposure start among those of the instruments, the same row is then protected by
  `matmutex` for one worker and by `matmutex2` for another, and TLC finds additions
  that are lost (one EXPOSURE instrument with one field before an INSTRUMENT one with
  three). Where the rows lie (`AssignedRows`) takes an induction over the walk of
  `astrsolve_fgroups` that counts the blocks.
* `WcsInOrder` and `MatchedInOrder` from `Mosaics`, `MosaicWcs` and `Matches`: which detectors and
  fields are taken, by whom, how far a worker is with the sets of its field (`Reached`:
  what is left to do says what was done, and the list of a field is `Orderly`: each set is
  aligned once, then refined once), and which fields have been reported. A field is
  flagged for viewing only when nobody works on it, and a worker at the stop gate has
  flagged its own; so the display cursor is at the last field when the master goes on.
* `OwnColumns` has two halves. `BlocksApart`: the first walk of `astrsolve_fgroups` gives the
  fields of an instrument one stretch after the other (`Spread`), the sums over the labels put
  the instruments behind each other, so that the blocks are equal where they are meant to be
  shared and apart everywhere else (`Blocks`). `ColumnsFollow`: while the sets are
  trimmed, whatever was trimmed before, every block still has its first columns at the place its
  index says, and the blocks lie in the order they had (`BlocksKept`, kept by
  `TrimSet` and carried through the fold over all sets). The hypotheses say where this ends.
  `ExposuresLast` as above; `PredistortedLast`: if there are pre-distorted instruments, the
  last field is of one, for the test of `astrsolve.c:279` is made with its label and would
  count one block too few for them; both are about settings and hold for those of
  the run. And `Dense`, for `ColumnsFollow` only: every field has as many
  constraints as coefficients of its own, so that no exposure is trimmed; with fewer the
  property is false, which `solve_trim` shows. Sets may have any number of constraints.
* `TypeOK` adds that the display cursor is never ahead of the other (`FieldAtGrows`), and that
  workers take only mutexes and add only to rows that exist (`Allocated`), for all settings.

When a `long` has room for a pixel id (`LongBytes >= IdBytes`; where it has not the store
fails, see above), `CrossIdProofs` proves for every sky, radius and order of detections all
properties of `crossid` but the depth of the recursion and its end.

* `StoreSound`: a tree is `Sound` when some function gives the nodes below each node, the
  lesser ids on one side and the greater on the other, and every imbalance is the
  difference of the heights below it, at most one. An insertion hangs a leaf where the
  search ends and then climbs; `Climbed` is the invariant of that loop: everything is
  balanced but the node it has come to, which is one higher than it was. Each of the
  rotations is one lemma (`TurnSite` says where a rotation may happen) used on both sides.
* `Stable`: the invariant is `Covered`. Two detections in neighbouring pixels that would
  rather be linked to each other have yet to be tried: the main loop has still to come to
  the newer one, or a call of `cross_sample` in progress for one of the two still lists the
  other. It survives thefts because who loses a partner gets a call of its own. When the
  loop is over nothing is awaited and no call is in progress. `Forward`, that links lead
  forwards in time over no more than the radius, is kept on the way.
* `LinksMutual`, `RefsLead`, `OrdinaryKept`: moving the references keeps `Acyclic`, that there
  is a rank that grows along the links (in the beginning the order of time), and it is to
  this that the walks along the links owe that they end. What a move does to the
  followers of each detection follows by induction on the rank.

For every layout of fields and sets, all solutions, epochs, labels, thresholds and
choices of photometric fields, `SourcesProofs` proves all properties of the run `sources`.
Fields are numbered from one and labels are natural numbers; no two
detections of a field coincide and no two fields of a chain are simultaneous, as
the configuration of the model assumes too.

* `FreshPositions` from the steps `makeit` may take from where it is (`Successors`).
* `LinksUsable`: a sort moves structs and leaves what points to them. It makes links
  unusable unless the arrays are in that order already: the last sort, after the
  motions, is by the positions the arrays were sorted by before (`Ordered`), so it moves
  nothing (`LastSort`). Links lead forwards in time, so a chain has no
  cycle, and induction along it is induction on the number of detections before.
* `AstrOutliersGone`, `ClipOnlyCuts`, `ClipDefined`: unlinking a set of detections of a chain is
  a fold that takes one out after the other, in any order; what is left is the chain without
  them. That the walk unlinks the right ones is an induction over its steps (`Cut`,
  `WalkGoesOn`): the part of the chain the walk has not been to is linked as it was, so that
  the saved `prevsamp` leads to the next one; and what a reference is linked to afterwards is
  one the walk has kept.
* `MergedOnce`, `CatalogueAgrees` from `SourcesSound`: two ends of chains have no member in
  common, and every detection is in the chain of an end. That the catalogue is written
  from the same chains needs that nothing has sorted or cut them since (`Listed`).
* `BadProper` from `Searched`, which holds after each turn of the search for bad detections: at
  least two are left, and the best fit has the degrees of freedom of that through
  what is not flagged. The bound on the turns bounds what is flagged.
* `PhotAnchored`: links between fields, made from the chains, are followed from each field
  that is not photometric; a dummy is chosen where none is found. Clipping only takes links
  away, so that what was true of the fields before stays true. Links through flagged
  detections count here, as they do in the code that chooses the dummies, but not in the
  equations; the property does not say that every zero-point is determined.

`FoldLemmas` has what these proofs need of sums, folds and concatenations of any length:
induction over the numbers and over finite sets in a form the provers can use (the least
element outside a set, from the well-foundedness of `<`), that `SumFunctionOnSet` of the
community modules adds one element at a time, that `FlattenSeq` is made of its parts, that
the rank of an element in a finite strict order tells it from the others, and that a
recursion along a rank has a value.

Only model-checked: `LinesWhole` and `FirstAnswerUsed` of `RefCat` (no proof of the first was
tried, an induction over the pieces that arrive; the second is about `SelectSeq`, of which the
provers know nothing); `RecursionBounded`, shown for five detections, for which
there is no evident measure: a detection that loses its partner may find a nearer
one among those that came later; and all liveness (`AllPass`, `Ends`, `Terminates`, the
fairness part of `PromiseKept`), which needs ENABLED and fairness and is out of the
prover's reach. No run checks `LoadPool!TypeOK`: it is proved.

## Disagreements between code and comments

* `crossid.c:195`: the shift undoes the decrement of line 193, and pixels are
  smaller than the radius (`crossid_nsides`).
* `fgroup.c:143`: the loop skips the group that moves up when one is removed
  (`fieldgroups_linked`). `PairsLinked` says up to where the grouping is right.
* `photsolve.c:743`: the walk along a chain goes on through the link that has just
  been cleared, so that only the newest outlier goes (`sources_photclip`).
  `astrclip_fgroup`, with the same comment, has saved it (`AstrOutliersGone`).
* `astrsolve.c:1231`: an exposure takes as many coefficients from the solution as it had
  before trimming, that is, the next exposure's (`solve_trim`).
* `proper.c:386`: after a turn in which no trial improves the fit the motion is that of
  the last trial (`sources_motions`).

Seen on the way, without a run: `photsolve.c:179` calls a field linked or not by the
order of its detections, where `field.h:107` says "True if linked to a photom field";
`threads.c:127` waits outside a loop, so that a `pthread_cond_wait` that returns by itself,
which POSIX allows, would let a thread through a closed gate (`Gate` leaves such wake-ups
out); `astrsolve.c:279` tests the label of the last field for all instruments, and with an
EXPOSURE instrument before an INSTRUMENT one, or a pre-distorted instrument when the last field
is of another, blocks overlap (see `NothingLost` and `OwnColumns` below "What is proved").

## What could come next

* `union_samples`: its search moves on before it compares (`samples.c:1047`), so that it
  never looks at the first candidate and may read entries not written yet. As long as it
  does, no promise of it holds; with that put right, a module would compare it with the
  union within a radius.
* A bound on the depth of the recursion of `cross_sample` for any number of detections.
* The nearest-neighbour search of `quadtree.c` and `pqueue.c` against its definition.
* Several sets per field in `Sources`, for the statistics of `photsolve.c:600`.

## Not modelled

Most of the source is numerical or input and output, and the modules leave it out:

* floating-point work: projections (`fitswcs.c`, `wcs/`), correlation (`fft.c`, most of
  `match.c`), medians of mosaics, weights and the solution of the equations, statistics,
  photometric normal equations and `photstats_fgroup`, parallaxes and colour shifts
  (`colour.c`), maps (`dgeomap.c`), and with them singular matrices (`proper.c:586`) and
  pixel boundaries (`chealpixstore.c:172`);
* formats: FITS (`fits/`), XML, headers, plots, the merged catalogue, the configuration;
  in `field.c` the scan of the HDUs of a file;
* local reference catalogues and `save_astreffield`; errors of `select` and
  `curl_multi_fdset`;
* skies without a reference catalogue (ASTREF_CATALOG NONE): `merge.c:88` and
  `astrstats.c:252` follow the reference field without a test;
* the loop of `makeit.c` 216-221 that ends the process when a group has no reference
  source; `Pipeline` solves once, which stands for each of its two or three solutions.

PROJECT.json lists every component with its status.
