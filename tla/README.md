# Heirloom Toolchest: a formal model

The Heirloom Toolchest is a collection of some 130 Unix utilities in C, most of
them small programs that read their input once and write it out again.  What
can go wrong in a way that a test hardly reaches is in the few that share files
with other programs, keep state between commands, or wait for several things at
once.  This directory models those in TLA+, checks the models with TLC and
proves part of what is checked with TLAPS.

Contents: [the system](#1-the-system), [the modules](#2-the-modules),
[what is checked](#3-what-is-checked), [what is proved](#4-what-is-proved),
[what was found](#5-what-was-found), [limits](#6-limits) and
[the plan](#7-the-plan).

## 1. The system

Every utility has a directory with its program; `libcommon`, `libwchar` and
`libuxre` are linked into many of them.  Utilities do not call each other
except through `exec` (`xargs`, `nohup`, `find`, `bdiff`, `ed` and `mail` with
`!`), and share state only through files.  The repository has no unit tests
apart from a few scripts in `sed/test`.

| Part | State it keeps | Operations | What is hard |
|---|---|---|---|
| `mail` (mail/*.c) | the mailbox, its lock file, the save file; in memory the table `let[]` of letters | deliver (`mail -d`), read, rewrite the mailbox at the end, restore what an interrupted rewrite left | several processes on one file, a lock that is only a name, signals and crashes at every point, writes that fail, new mail during a session |
| `shl` (shl/shl.c) | the list of layers, the current layer, blocked output | create, delete, block, resume, toggle, quit; one `poll()` loop over all layers | layers end at any time and are waited for in another order; an array that `poll()` uses and a list that changes under it |
| `ed` (ed/ed.c) | an array of line addresses, a second one for undo, 26 names, marks of a global command, `fchange` | the editing, file and global commands | pointers into arrays that are reallocated, commands inside global commands, undo |
| `bfs` | an index of a big file | search and move in it | the same commands as `ed`, read only |
| `cp`, `mv`, `ln` (cp/cp.c), `copy`, `mvdir` | the tree; a table of the linked files that were copied; counts of errors | copy, move, link, recursively | steps that fail half-way; what is removed before its copy is safe; inode numbers that are used again |
| `rm` (rm/rm.c), `rmdir`, `mkdir` | the tree; descriptors of the directories it is in, in several processes | remove, make | a tree that others change meanwhile; descriptors that run out |
| `sort` (sort/sort.c) | runs in memory, temporary files, the files being merged | sort runs, merge them in passes, remove what was made | limits on open files and memory; signals; an output that is an input |
| `tail` (tail/tail.c), `tee`, `split`, `csplit`, `head` | a buffer that grows and then is written over, output files | cut a stream | the end of the buffer, input that grows meanwhile |
| `xargs` (xargs/xargs.c), `nohup`, `time`, `nice`, `env`, `kill`, `sleep` | an argument list with limits | run commands | limits at their boundary, exit status |
| `comm`, `join`, `uniq`, `tsort`, `paste`, `cut` | two lines, or a graph | merge, order | equal keys, ends of files, cycles |
| `dd` (dd/dd.c), `tcopy`, `tapecntl` | a record, an output block, counters | convert and reblock | short reads, short writes, partial blocks, errors |
| `fgrep` (grep/ac.c, grep.c, plist.c), `grep`, `egrep` | an automaton for the words, a buffer, the part of a line that the next buffer completes | build the automaton, take the lines from the buffers, report | lines that the buffers cut, links that lead on from links, two ways to take a line |
| `libuxre` (regdfa.c, regnfa.c) | an automaton | match | states found while matching, a table that outlives the call and is emptied |
| `sed` (sed/sed0.c, sed1.c) | pattern and hold space, the line number, open ranges, texts to be appended, the n or N that waits for a line | execute a script | ranges, branches and reads over the end of the cycle and of a file |
| `diff` (diff/diffreg.c, diffdir.c), `bdiff`, `sdiff`, `diff3`, `dircmp`, `cmp` | hashes, candidates, matches, the record of changes; for directories a stack of all that | compare | hashes that are equal for lines that are not; one search for six forms of output; variables that a nested comparison changes |
| `dc` (dc/dc.c), `bc`, `expr`, `test`, `factor`, `units`, `random`, `getopt` | a stack of numbers in base 100, a scale | evaluate | carries, guessed quotients, digits cut off, operands that are missing |
| `cpio`, `tar` | archives, tables of links | read and write formats | media I/O |
| `find`, `ls`, `du`, `chmod`, `chown`, `touch`, ... | one file at a time | look at or change attributes | mode arithmetic |
| `nawk`, `oawk` | the user's program | interpret it | an interpreter |
| `more`, `pg`, `pr`, `nl`, `fmt`, `od`, `col`, `ul`, ... | a line and a page | lay out text | wording and columns are the program |
| `ps`, `who`, `id`, `su`, `stty`, ... | none | read out system tables | none |
| `libcommon`, `libwchar` | an input buffer | read lines, convert | boundaries of the buffer |

How the parts of `mail` interact: `main()` runs either `sendmail()`, which calls
`send_mbox()` for a local recipient, or `printmail()`.  Both go through
`lock()`/`unlock()` (lock.c), which call `maillock()`/`mailunlock()`
(maillock.c), and both end in `done()` (done.c), which every signal handler
calls as well.  `printmail()` begins with `cksaved()` and ends with
`copyback()`.  They meet in three files: the mailbox, `mailbox.lock`, and the
save file in `:saved`.

What makes each modelled part correct:

* `mail`: a letter that was accepted is somewhere on the disk until its owner
  deletes it; a mailbox is a sequence of whole letters; a delivery that reports
  failure left nothing; whoever waits for the lock gets it; a command disposes
  of the letter that the user has seen.
* `shl`: each process is in the list until it has been waited for; there is a
  current layer as long as there are layers; a blocked layer is not heard; every
  layer is told when shl ends; a layer that has ended is noticed.
* `ed`: addresses name one line each; a name follows its line; undo restores the
  buffer; global commands end; nothing is lost without a warning.
* `cp`, `mv`, `ln`: what was in the source is in the source or in the target,
  wherever they are stopped; what were links of one file still are.
* `rm`: nothing goes that is not below an operand.
* `sort`: the output is the lines in order; no temporary file stays.
* `tail`: what is printed is the end of the input, and all that comes after it.
* `xargs`: each argument is in one command, in order, within the limits.
* `dd`: the output is the conversion of the input, however it came in pieces.
* `fgrep`: every line is judged once, by the words in it, however the reads cut it.
* `libuxre`: the match is the leftmost and longest, whatever was matched before.
* `diff`: what it writes turns one file into the other, changing no more lines
  than necessary; each name of two trees is told of once, with its path.

## 2. The modules

| Module | Models | Source |
|---|---|---|
| `MboxLock` | what the lock promises its callers (abstract) | mail/lock.c, done.c |
| `MailLock` | the lock protocol, implements `MboxLock` | mail/maillock.c |
| `Mailbox` | what a mailbox is to its users (abstract) | |
| `MailStore` | files, names and the steps every process has; uses `MboxLock` | mail/*.c |
| `MailDeliver` | `mail -d` of one letter | mail/sendlist.c, islocal.c, createmf.c, copylet.c, done.c |
| `MailReader` | reading, restoring and rewriting | mail/cksaved.c, printmail.c, delete.c, copymt.c, copyback.c, delempty.c |
| `Mail` | both programs on one mailbox; implements `Mailbox` | |
| `Mail_proofs` | proofs about `Mail` | |
| `MailSession` | the dialogue of `printmail()` | mail/printmail.c, gethead.c |
| `MailParts_proofs` | proofs about `MailLock` and `MailSession` | |
| `Shl` | shl | shl/shl.c |
| `Shl_proofs` | proofs about `Shl` | |
| `Ed` | the buffer of ed | ed/ed.c |
| `Ed_proofs` | proofs about `Ed` | |
| `Cp` | cp, mv and ln of trees | cp/cp.c |
| `Rm` | rm -r | rm/rm.c |
| `CpRm_proofs` | proofs about `Cp` and `Rm` | |
| `Tail` | tail | tail/tail.c |
| `Xargs` | xargs | xargs/xargs.c |
| `TailXargs_proofs` | proofs about `Tail` and `Xargs` | |
| `Sort` | sort | sort/sort.c |
| `Dd` | dd | dd/dd.c |
| `Regdfa` | regular expressions by an automaton | libuxre/regdfa.c, regexec.c |
| `Diff` | diff of two files | diff/diffreg.c |
| `Diffdir` | diff of two directories | diff/diffdir.c |
| `DdDiffdir_proofs` | proofs about `Dd` and `Diffdir` | |
| `Dc` | dc's numbers and what computes with them | dc/dc.c |
| `Sed` | sed | sed/sed0.c, sed1.c |
| `Grep` | fgrep | grep/ac.c, plist.c, grep.c, libcommon/ib_read.c |
| `SequenceLemmas` | lemmas about sequences and numbers that the proofs share | |
| `MCMail`, `MCEd`, `MCGrep` | instances for TLC | |
| `MCShlLock` | `Shl` or `MailLock` | |
| `MCLive` | `Mail` or `Shl`, with their fairness | |
| `MCTools` | one of the programs that work alone, chosen at the start | |

The programs that work alone do not share any state, so that one run can check
them all: `MCTools` has the variables of each, `ToolsInit` chooses one (`tool`),
and the others stay as they are.

### MailLock and MboxLock

`MailLock` has one action per system call of `lock1()` and `maillock()`: the
temporary file is made, `link()`ed, the lock looked at with `stat()`, and
removed when it is old.  A process stands at one of the labels of `lpc` between
two calls, so that any other process may act in between.  `holder` says who
made the present lock file, which the code cannot know; `locked`, `curlock`,
`statfailed` are the variables of those names (`touchlock()`, which would
renew a lock, is called by nobody and has no action).
`Done` is `done()`: it unlocks without asking whether the process has the lock.
Time is a clock that ticks at any time; `Stale` is 300 seconds in the code.  When the clock has reached `MaxTime`, the times that were
noted move away from it instead, so that the order of times up to `MaxTime`
apart is kept and no behaviour ends because of the bound.

`MboxLock` is what the callers see: `Ask`, `Take`, `Break`, `Mailunlock`, `Die`
and `Again`.  Its weakness is the code's: a lock may be removed by whoever has
once asked for it.  `MailLock` implements it step by step
(`ImplementsMboxLock`), and `Mail` uses it instead of `MailLock`: that is why
`Mail` needs no clock and no temporary files.

### Mail

A letter is two blocks, its From line and the rest, since it reaches the file in
several writes; a file is a sequence of blocks.  `data` has the contents and
`dir` the names, because the programs go on using an open file whose name is
gone.  `MailDeliver` and `MailReader` have one action per stretch of code
between two system calls that others can see, with the label of the stretch in
`pc`.  The calls that fail are in `Fails`, by name.  `SignalDelivery` and
`SignalReading` are `done()` in a signal handler, including that `exit()` writes
out what stdio still has after the lock is gone (`ExitFlush`);
`CrashDelivery` and `CrashReading` are the end without any handler.  A variable
the code reads without having set it is a choice of the outcomes (`StatMbox`,
`MailboxGone`).

SIGINT and SIGQUIT at the prompt are taken by `delete()`, which jumps to the next
prompt out of whatever was going on.  `Interrupt` is the jump out of `lock()`, from
behind the table, or while a command is read: a process that has the lock keeps it,
and the next `lock()` returns at once.  `InterruptCopy` is the jump out of `copymt()`: some blocks
are in the temporary file, and some letters counted of which the last has no end yet
(`Unfinished`).  `cut` is history: it is set when that has happened with a table that is half made.
`Orderly` says that it has not, and that no two processes were in the mailbox at once.

`Mailbox` is the abstract specification: a letter that was never there is appended
(`Deliver`), letters are marked, and those that are marked are taken out, each of
them and no other, the rest staying in its order (`TakeOut`).  `Promise` maps the files to it: `box`
is the sequence of whole letters in the mailbox, or in the save file between `unlink()`
and `rename()`; `been` the letters that were accepted; `bin` the letters, by
their number, that lie in the entries of the table that are marked (`MarkedLetters`).
`KeepsPromise` says that as long as the mailbox is `Sound`, that is `Orderly` and
nobody was killed in the middle of a copy, the files change only so.

### MailSession

`curlet`, `showlet`, `nlet`, `onlet`, `print` and `changed` are the variables of
`printmail()`; `marked` is the set of letters with a `let[].change`.  One pass of
the loop is `Top` (a letter is displayed), `ReadCommand` (which may load new
mail) and one command.  `shown` is history: what the user saw last.  The order
`-r` and `-h` are chosen by `SessionInit`.

### Shl

`chain` is the list of layers, `lcur` the current one, `pfd`, `events` and
`revents` the array of `poll()`, made when `doio()` begins and not changed when
a layer goes.  `Poll` reports, then `DoInput`, `DoOutput` and `HangUp` work off
one entry each, and `Await` waits for children in any order.  Commands are read
by the same loop.  What goes on in a layer (it writes, closes its terminal,
ends) happens at any time.  The NULL that `lbypty()` returns for a layer that
has been freed is the mode "crashed".

### Ed

`buf` is the array from `zero+1` to `dol`, its elements the addresses of lines in
the temporary file, of which `tline` is the last; `bits` is the low bit of each;
`names` is `names[]`; `und` is `undzero` with `unddot`, `unddol` and `undnames`.
There is one action per editing command with the checkpoint, the growth of the
array and the effect on `fchange` that it has in the code, within and without a
global command.  The current line is left out: every command may be given its
lines, and no property is about the default.  `Rotated` is the three reversals
of `move()`, `GDelete` the compaction of `gdelete()`; these are compared with
what they are meant to do.  `grown` and `wild` are about the one growth of the
array the model has: `append()` moves `unddot` and `unddol`, which point into
`undzero`, by the distance that `zero` moved, so that what `u` does afterwards
depends on where `realloc()` put both.

What `u` and `q` should do is said of what a user sees, in conjuncts of `EdNext`
beside the actions (`Follow`, `Altered` and the others) that read neither `und` nor
`fchange`, and which no action reads.  `past` is the buffer before the last command
that changed it, or that was typed to edit it and found nothing to do; in a global
command that is the buffer at its start (`start`).  After a `u` in the list of a
global command (`nested`) nothing is said of the next `u`.  `unsaved` is "altered"
from the moment the buffer looks different until a whole `w`, `e` or the
warning; three things that alter the buffer, or lose sight of that it was, without `fchange`
are told apart: `u` and `r` into a buffer whose lines were deleted ("untold"), and an interrupted `r`,
which says something else ("told").  `AlterationsNoted` is about all but these,
`WarnsOfAlterations`, which is violated, about "untold" too.

### Cp

The operands are trees of paths (`src`, `tgt`), inodes a device and a number with
the kind of file and the data it has; a number is free when no name is left, and
may then be given to another file.  One action is one system call with what
the code does until the next one: `Go` is the beginning of `cpmv()`, `Rename` and
`RenameAcross` the two outcomes of `tryrename()`, `Reg`, `CanLink`, `Creat`,
`CopyData`, `Special` and `CopyDir` copy one object, `TryDelete` and `DeleteNext`
remove the original.  `stack` is the recursion, `linktab` the table `d0`,
`freedslots()` its clearing for each operand of `mv`, `errcnt` and `saverrs` the
counts that decide whether the original may be removed.  The calls in `CpFails`
may fail, `Kill` may come between any two, and `Somebody` else makes up to `MaxNew`
names in the source.

### Rm

`loc` is the place of each node, `calls` the stack of `rm()` over all processes,
`cwd` their current directories.  `Enter` and `Back` are `fchdir()`, `Fork` is
`subproc()`, for when there are no more descriptors; a descriptor that the parent
keeps is in `leak`.  `SomebodyMoves` a file, a link or a whole directory anywhere
else, as `rename()` allows.

### Tail, Xargs, Dd

`Tail`: the input is characters that are newlines or not, of which `written` are
there; `Append1` and `Close` are the writer.  `Fill` is one `read()` into `buf`,
which grows by `Chunk` until it is as large as `spcsize` and is written over from
its beginning then; `ShowTail` looks backward for the newlines.  Position 0 is
memory never written.  `EndsRead` are the lengths of which what is shown may be the
tail: of a pipe, and of a file of which the last lines are counted, only the length that had been read when
its end was met; of a file where `lseek()` is told the characters, and with -f, any it had
since `fstat()`.

`Xargs`: `NextInput` is one turn of `process()`, `Add...` are the ways through
`addarg()`, `Insert` is `insert()` for -i, `Run` ends a command.  An argument is its
index, with the size it takes and whether its line ends behind it.  A command holds no more
of them than -n says, or than `a_vec` has room for (`MaxArgs`).

`Dd`: `ReadBlock`, `ReadEnd` and `ReadFails` read; `Convert` cuts what was read into
records (`cblok`), which `DWrite`, `BWriteFull` and `BWriteKeep` put together to
output blocks (`oblok`), each `write()` being possibly short (`Short`) or failing.
The calls that wait to be made are `todo`.  `Convert` is `blokconv()`: a function of how many
characters of the block have been taken, each of which goes through `Block` or
`Unblock`.  `Reference`, which the output is compared to, does not go through
the characters: it says what every line of the whole input becomes (`Line`, cut to cbs
characters by `Cropped` and filled up), or what every piece of cbs characters does (`Piece`).

### Sort

`SortRun` and `WriteRun` are `sort()` with `quicksort()` written out as a recursive
operator; `MergeOpen`, `QuickSort`, `MergeOut` and `MergeNext` are `merge()`, whose
heap `ibuf` and flag `muflg` are as in the code; `Pass` is the loop in `main()` that
merges `Width` files at a time.  `NewFile` and `NewFileCounted` are apart, because
`Trouble` (a signal or a failing call) may come between them; `Term` removes what
is counted.  How many lines a run in memory has is the -y of the call (`nlines`).
-o may name an operand; with -c, too, where it is emptied before it is read.

### Regdfa

A pattern is a tree.  `Compile` numbers its leaves, writes out intervals
(`Repeated`) and makes the follow sets; a state is a set of positions, and `trans`
the table of the states met so far, which stays between calls of `Regexec` and is
emptied at `CacheSize`.  `SearchChar` is one character of `regdfaexec_opt()`,
`LeftmostChar` one of `leftmost()`, which begins again at the next character when
it ended in the dead state without a match.  `Means` is the meaning of a pattern
by recursion over its tree, to which `MatchesMean` compares the result.  Each call has its own REG_NOTEOL, and
`noteols` is history: the flags of the calls since the table was made.  When all
were the same the result is compared exactly.  When they were not, the table may
remember either (regdfa.c:609): then a string in which nothing matches even with $ has no match,
one in which something matches without $ has one, and what is found is a match of one or the other kind.
`GivesUp` is where `leftmost()` does (section 5).

### Diff and Diffdir

A line is a value; `HashOf` gives its hash and `Folded` what -b, -w or -i leave of
it, so that lines with equal hashes that differ are part of the instance.
`Prune`, `Match` (that is `equiv()`, `stone()` with `search()` and `newcand()`, and
`unravel()`) and `Check` leave the matches in `J`; `OutputForward` or, for -e,
`OutputBackward` find one change at a time and give it to `Change`, which writes it
as a command, adds it to a record for -c and -u, or merges it for -D.  `Recreated`
and `ReadBackward` are a reader: the editor, `patch`, the preprocessor.

`Diffdir` is the other end: `NameTold` is what `compare()` and `only()` say of a name
without looking into it, `NameDiffers` and `Subdirectory` call `stackdiff()`, which
sets aside `ddArgv`, `ddFile` and `ddEntry` in `ddStack`, and `Longjmp` is how
`done()` gets back to it.  A tree is a function from the paths of the directories that
are in both to the kinds of the names in them, so that any depth is possible and no
definition has to go down it: `TreeIsCompared` says which names are told of (`ToTell`)
and in what order (`ToldBefore`): in a directory the names first, then what is in its
subdirectories, one after the other.

### Dc

A number is a row of digits to the base 100, the lowest first, which ends with -1 if
it is negative, and a number of decimal places.  `Ripple` is the loop with a carry
that `Chsign`, `Add`, `Mult` and `DivStep` all are.  `Div` guesses each digit of the
quotient from the first digits (`Guess`), takes that many times the divisor away, and
corrects once at the end, when the last guess was too high; digits of the quotient
that came out as more than 99 are carried then.  `Sqrt` is Newton's method with the
first guess of `sqrt()`; `Removc` and `Removr` drop places, the latter keeping what it
drops.  The actions are the cases of `commnds()` for numbers, + - * / % ^ v and k, with
what each puts back when the stack is too short.

### Sed

A script is a sequence of commands, which `Compiled` turns into what `fcomp()` and
`dechain()` leave: a { is a branch to behind its }, on the opposite condition, labels
are places.  A regular expression is one character; a line is a sequence of them.
`OpenFile` is the beginning of `execute()`, with the n or N (`waiting`) that is taken up
again; `Gline` reads a line, from a buffer (`sedbuf`, what is left of it; `sedibuf`, how it begins)
whose last line may lack its newline (`job.cut`); `Addresses` says for one command whether it is selected
and whether its range (`inar`) is open then, with the check that only the variants for
the standards have (`job.sus`); the other actions are the cases of `command()`.

`SedSays` is what the manual says of the same script: it keeps for every command
which pattern spaces it has seen, and finds from these alone whether the last of
them is in a range.  `SedMeans` compares what both write.  `astray` is set where sed is
known to do something else, see section 5.

### Grep

The automaton is a set of states, each of them what has been read of a word:
`AcBuild` makes it with the links of `cfail()`, and `AcScan` follows it.  A line is
taken in one of two ways: `RangeTakes` is `ac_range()`, which goes through all lines of
a buffer, `Matchline` is `matchline()`, for a line that two buffers bring and for -i.
`GrepRange` is what the loop of `grep()` does with one buffer, up to the copy of the
line that is not complete (`overlap`), `GrepNextBuf` and `GrepEof` are what follows the
next read.  `Select` is what a line leads to that is selected.  `Says` is what the
manual says of the words and the files, without automaton and buffers; `GrepSelects`
compares both, and leaves out `Divergent` words and files that were cut as in the run
`grep_lines` (`miscut`).

The compiled programs were run beside five of these models: on all 1089 inputs
of `Sort` with two lines in memory, on 22104 pairs of files and options of `Diff`,
on 36078 sequences of commands of `Dc`, on 18952 scripts, files and variants of
`Sed` (909 of them astray), and on 5761 sets of words, options and files of `Grep`, with
the buffer made as small as the model's, each wrote what its model writes.

## 3. What is checked

| Run | Instance | Shows |
|---|---|---|
| `mail_kill` | 1 reader (2 sessions), 2 deliveries, a table of two letters, signals, crashes and interrupts at every point | no accepted letter is lost; the save file is restored before reading; what is read is the mailbox; `Mailbox` is implemented |
| `live` | mail: 1 reader, 1 delivery (2 tries), 1 old letter, a table of one letter, every call may fail, kills; or shl: 2 layers; both fair | letters are not torn, and a failed delivery left nothing; nobody waits for ever for the lock, deliveries end; a layer that has ended is noticed |
| `shl_lock` | shl: 3 layers, 2 at once, all commands; or the lock: 2 processes, `Stale` 2 | shl: there is a current layer in the list, no layer is forgotten, input has a reader, a blocked layer stays quiet; the lock: while none was taken away from its owner, who thinks he holds it owns it, so that there is only one; `maillock()` implements `MboxLock` |
| `ed` | 3 lines, a list of one command, one name, an array that grows at the third line | types; a name follows its line; the loops in place are right; alterations are noted; undo restores; global commands end |
| `tools` | each program of `MCTools`, with the inputs given there | see below |
| `lock_stale` (violation) | 2 processes | a lock made a moment ago is removed as stale |
| `mail_unlocked` (violation) | no failures at all | `done()` removes the lock of another process |
| `mail_savelost` (violation) | `rename()` fails | `copyback()` empties the only copy of the mail |
| `ed_warns` (violation) | as `ed` | `r` into an empty buffer, then `u`: `q` gives no warning |
| `sort_merge` (violation) | as `tools` | `sort -m -u` writes a line twice |
| `regex_repeats` (violation) | as `tools` | an interval from 0 to 2 matches three |
| `grep_lines` (violation) | a pipe of up to 4 characters, in any pieces | fgrep reports a line that is not there |

The invariants and action properties are stated in English above each
definition.  In `tools`:

| Program | Property | Instance |
|---|---|---|
| mail's dialogue | `CountsTheMarks`, `OldestFirstDisposes` | up to 5 letters, both orders, with and without headers |
| `cp`, `mv`, `ln` | `SourceIsSafe`, `LinkageKept` | 6 sources of up to 4 names with directories, links, special files and what cannot be copied; 4 targets; one device or two; 8 ways to call it; two operands; each of 11 calls fails, a kill at every point; two names made by somebody else |
| `rm` | `RmStaysInside` | 9 nodes, 4 directories, 1 or 2 descriptors, 3 processes, 2 moves |
| `tail` | `ShowsTheTail` | 4 characters, numbers up to 2, a buffer of 2 that grows by 1, memory for lines of 2, from either end, -f, -r, pipe or file, reads of a pipe of any size |
| `xargs` | `XargsDivides` | up to 5 arguments of 1 or 2, lines that end anywhere, an end-of-file string, one that is too long; -n, -l, -s, -x, -i, and an `a_vec` for 4 arguments |
| `sort` | `SortsAll` | 4 lines of 3 keys, or 2 files of 2 lines, or 3 files; one, two or five lines in memory, 2 files merged at a time; -m, -c, -u, -o; every failure, and the signals that sort catches |
| `dd` | `DdCopies` | up to 3 characters, 5 sets of operands; reads and writes that are short or fail |
| `libuxre` | `MatchesMean` | 14 patterns of all operators, 2 strings one after the other with the same table, the four flags, REG_NOTEOL the same in both calls or not, a table of 7 states |
| `diff` | `DiffRecreates` | all pairs of files of up to 3 lines (or 2, with a missing newline), of lines with equal hashes, of like lines and blank ones, 8 sets of options; a file of 6 lines with up to 5 lines deleted and inserted anywhere, for -c and -u with -p, and records of 2 changes |
| `diff -r` | `TreeIsCompared` | directories of 2 names of 7 kinds, and 3 deep |
| `dc` | `DcComputes` | scales of 0 to 3; two numbers of either sign, some with places and some of several digits, and each command; three numbers and two commands |
| `sed` | `SedMeans` | each command alone, with each kind of address and its opposite; ranges to and from numbers, characters and the last line, alone and behind n, N, s and P; 10 scripts with loops, braces and t; up to 4 lines of two kinds in one file, up to 3 in two, a file that cannot be opened; files of up to two lines without the last newline; both variants |
| `fgrep` | `GrepSelects` | all lists of two words of up to 2 letters, 6 lists whose links matter, with lines of up to 5 letters and -x or -i; one letter, 8 sets of options and pipes of up to 5 characters, in any pieces; two files, or one that cannot be opened |

**Bounds.**  The lock: one process waits while the other takes it or is dead with it;
that a third one breaks it meanwhile is left to the theorems, which are about any
number.  Mail: `mail_kill` goes on only from states that are `Orderly` (its CONSTRAINT),
because all its properties but the type invariant speak of those alone.  Two processes in the
mailbox at once is what the lock is to prevent, two sessions are needed to find
what the first left, two tries to double a letter; a table of one letter (`live`)
overflows.  Two readers are not run: see section 6.  The dialogue: five letters
leave three to come in as new mail at different prompts.  shl: the limit of two
is reached by the three layers there can be in a session; the third takes the
place of one that has ended, and two that end in one round of `poll()` are waited
for in both orders.  `ed`: three lines are the fewest that m, t and g/.../d can put
in a wrong order, and each command that makes lines can be the one that enlarges
the array; the bound is on lines ever made, since the temporary file only grows,
not on commands, of which there may be any number.  `MaxText` 1 is one line typed
at a time; two follow from two commands.  `cp`: a second operand is needed for a
number that is used again; a link of a file deeper than its first copy, and one in
another operand, are both there.  `rm`: one descriptor makes a process for every
directory, three levels need two of them; two moves take a directory away and put
another thing in its place.  `tail`: 4 characters go around a buffer of 2 and of 3.
`sort`: 4 lines make 4 runs of one line, that is two passes and a file that is left
over, or two of two lines, or one that `quicksort()` sorts whole, so that lines that -u sets to
zero are in memory with others, and what is read is written with `oldfile()` at once; `MaxFile` is never reached.  `dd`: block sizes of 1, 2 and 3 in any relation
to each other, records shorter and longer than blocks.  `libuxre`: a table of 7 is
emptied in the middle of the longer strings; two of the patterns have a $ before something
else, so that it matters what the table remembers of it and where `leftmost()` gives up.  `diff`: three lines are enough for
candidates that are replaced while they are still somebody's predecessors; six for
two records of which the first is full, and for changes that are just near enough.
`dc`: quotients of up to three digits to the base 100, guesses that are too high and
corrected, digits of 100 and more, and results that are short for the next command; the
numbers stay so small that their values are integers of TLC.  The stack's size and
other bases of numbers are not there.  `sed`: four lines let a range close, open again and be
jumped over by N; two files, the second one empty or not, let a command wait at the end
of either.  `MaxLnum` ends a sed that reads the same lines without end.  `fgrep`: a buffer of 6 holds a line of 5 letters, which is long enough for two
links one after the other; the pieces of a pipe cut a line once, twice, before its
newline and behind it.

**Deadlock** is not checked: everybody may be through, and nothing follows the mode
"crashed".  That nobody waits for ever is what `live` checks.

**Fairness.**  `FairMailSpec`: a program that is not waiting for a user goes on
(weak fairness of all its own steps together), and `maillock()`, which wakes up
every few seconds, at some time finds a lock older than five minutes and removes
it.  Nobody has to start mail or type a command.  `ShlFairness`: shl goes on,
and a process that has no terminal any more ends; a layer need not write.  The
programs of `MCTools` are checked for safety only: each of them ends because it
gets on in a finite input, but for `tail -f` and for `xargs`, see section 5.

Each property of a passing run has a mutant, an operator named and commented as
such in the module, which is the definition it stands before with one plausible
mistake.

## 4. What is proved

| Theorem | Establishes | For |
|---|---|---|
| `LockTypeCorrect` | `LockTypeOK` (in no run) | any set of processes, any ages and limits |
| `LockOwned` | `HolderOwnsLock` | " |
| `LockExclusive` | `ExclusiveUnlessStolen` | " |
| `LockImplements` | `ImplementsMboxLock` | " |
| `MailTyped` | `MailTypeOK` | any number of deliveries, readers, tries, sessions and letters, any calls that fail |
| `MailboxRead` | `ReadsTheMailbox` | the same with one reader, interrupts included |
| `MailKept` | `NoLetterLost` | one reader, and `SureCalls` |
| `PutBackFirst` | `RestoredBeforeReading` | one reader, `SureCalls`, and `unlink()` does not fail |
| `FailedLeavesNothing` | `FailureLeavesNothing` | as `MailTyped` |
| `NothingTorn` | `NoTornLetters` | the same, and `copystream()` does not fail |
| `PromiseKept` | `KeepsPromise` | one reader, and `SureFiles` |
| `SessionTypeCorrect` | `SessionTypeOK` | any size of table, any number of letters |
| `SessionCounts` | `CountsTheMarks` | " |
| `SessionDisposes` | `OldestFirstDisposes` | " |
| `LayersWellFormed` | `ShlTypeOK` | any number of layers, at once and in all |
| `NoneForgotten` | `NoLayerForgotten` | " |
| `InputIsRead` | `InputHasAReader` | " |
| `BlockedIsNotHeard` | `BlockedStaysQuiet` (of steps) | " |
| `EdUndoRestores` | `UndoRestores` (of steps) | any number of lines, names and commands in a list, any size of the array |
| `EdTyped` | `EdTypeOK` | " |
| `EdNamesFollow` | `NamesFollowLines` | " |
| `EdNotes` | `AlterationsNoted` | " |
| `EdInPlace` | `InPlaceSame` | " |
| `EdShrinks` | `GlobalShrinks` (of steps) | " |
| `WellFormed` | `RmTypeOK` (in no run) | any tree, any number of operands, descriptors, processes and moves |
| `StaysInside` | `RmStaysInside` | " |
| `NothingLost` | `SourceIsSafe` | any trees to begin with, any operands with different names, options, calls that fail, any number of names that somebody else makes |
| `LinksAreKept` | `LinkageKept` | the same; -d is set for `mv` |
| `CpTyped` | `CpTypeOK` (in no run) | any trees, as for `NothingLost` |
| `EachIsPassed` | `XargsDivides` | any input, any options of which -l sets -x, any sizes and limits |
| `XargsTyped` | `XargsTypeOK` (in no run) | " |
| `TheTailIsShown` | `ShowsTheTail` | any input, number and option, any sizes of the buffer, of the memory and of the reads, any writing by others |
| `AllIsConverted` | `DdCopies` | any input, any sizes of blocks and records, any reads and writes, whole, short or failing |
| `AllAreTold` | `TreeIsCompared` | any two trees, of any width and depth, any options |
| `DirsTypes` | `DdirTypeOK` (in no run) | " |

Each module of proofs has one inductive invariant, or one for each theorem, shown to
hold at first and to be kept by every action; TLC checked each of them on the
instance of its run before it was proved.  The assumptions on constants are the
named `ASSUME` of the module the theorem is about; further hypotheses are named
in the theorem.

`MailParts_proofs`, the lock: the inductive invariant is `LockInv`.  `HolderOwnsLock` alone
is not inductive, because a process in the middle of `maillock()` must be known
not to hold the lock (`InMaillock`): otherwise the `link()` that succeeds could be
that of a process whose own lock someone else has by then.  `LockExclusive`
follows from `LockOwned` by logic alone.  `LockImplements` maps each action to
the one of `MboxLock` or to a stutter: `EnterLock` to `Ask`, `LinkTaken` to
`Take`, `BreakLock` to `Break`, `Unlock` and `Done` to `Mailunlock`, `Crash` to
`Die`, `Restart` to `Again`.  The assumption is `LockAssumption`.

`Mail_proofs` has three invariants, one upon the other, two beside them, and one that puts them together.  `TypeInv` says for each
label what the process there has open, and that a file has one name: the inode of a
new file is then one that nobody knows.  `ReadInv` adds what holds until two processes
meet in the mailbox (`Apart`): only one is between `lock()` and `unlock()`
(`Exclusive`), a delivery writes behind what the owner has read (`Writes`), and
what the owner has copied is the beginning of a mailbox that is still in its
place (`ReadsOn`), though it was opened before it was locked.  An interrupt that
has not left the table half made has copied nothing, or everything (`InterruptCopyIs`), and the next
new mail is read from the end of the table, not from the size that was known.  `SafeInv` says for each
label which of the mailbox and the save file have the letters that were accepted
and not deleted: the mailbox alone, or either of them while `cksaved()` and
`copyback()` are between `unlink()` and `rename()`.  For this it follows the copies block
by block (`Copies`).  `NoLetterLost` does not follow from less: that `RemoveSaved` loses nothing
depends on what `AppendSaved` did two steps before, and that `UnlinkMbox` loses
nothing on all that `CopyOut` did, in a session that may have been killed and followed by another.
`OneReader` and `SureCalls` are needed: with two readers, or with any one of
`copystream()`, `rename()` or the `fopen()` of the save file failing besides a kill,
TLC finds a letter lost (sections 5 and 6 say how); that `unlink()` fails does no harm to
`NoLetterLost` (checked with two tries and three sessions), but leaves a save file
that is found again, so that `PutBackFirst` excludes it.
`FailedLeavesNothing` needs neither; its invariant is `CleanInv`, upon `TypeInv`: as
long as `Sound` holds nobody is in the mailbox beside another, no file and no
temporary file has a block of a letter that was not accepted, but for the one its
delivery has written and can still cut off at `pos` (`Clean`), and a delivery whose
letter was accepted will report success (`Told`).  That a session cannot copy the block
that is cut off later is what the lock is for.
The invariant of `NothingTorn` is `WholeInv`: while `Sound` holds, every file that nobody is
writing to holds whole letters (`Entire`), a delivery that has written the From line
has it behind whole letters (`Half`), the two copies of a session have a beginning of
what they copy (`HalfCopied`), and the table divides the temporary file
between letters (`EvenTable`), which is why what `copyback()` puts together again is
whole.  `SequenceLemmas` gives `Letters`, a recursive function, as a loop
(`LettersParts`), and from that `LettersSpelled` says what it reads in a file of whole letters.
`PromiseKept` is the refinement: every step of `Mail` is a step of `Mailbox` or leaves the letters
as they are.  `PromiseInv` is `SafeInv` and `WholeInv` and what neither says of the way
from the save file to the mailbox (`Promised`): the tables are in order, there is
a save file without a mailbox only between `unlink()` and `rename()`, and none when an empty mailbox is removed.
A delivery is `Deliver` with its second block, and so is a letter that `cksaved()` copies
(`AppendSavedAs`); `unlink()` of the mailbox is `TakeOut`, since what `copyback()` has written is a
selection of the letters in their order (`KeptChosen`, by the letters of the table one after the other),
those that are in no marked entry and all of them (`MarkedLetters`); `rename()`
is a stutter, and the other steps are beside the mailbox (`SessionAs`).

`MailParts_proofs`, the dialogue: `SessionInv` adds to the types and the count that `showlet`
and `curlet` stay in the table at the places where they are used (`InTable`); the
count needs that a letter is counted when it becomes marked and only then, which
is a lemma about `Setletr` and the cardinality of finite sets.  `SessionDisposes`
needs `ShowsCurlet`, about when `showlet` is the letter displayed with `-r`, in
addition.

`Shl_proofs`: `ShlInv` has two parts beside the types.  `ListInv`: the list has each
layer once, only such as have a terminal, and none is forgotten; behind the current
layer there are only layers that were deleted (`OnlyToldBehind`), without which
`setprev()`, which takes the list for empty when the current layer is its first, would
drop one that is wanted.  `LoopInv` is about one round of `doio()`: the array was made
from the list, layers may have gone since, and its last entry is the current
layer's, or that of one that has gone and ends the loop (`LastEntryIsCurrent`); input is
worked off before any layer is waited for (`InputFirst`).

`Ed_proofs`: `UndoRestores` follows from `UndoKnowsPast`: what undo has is the
buffer before the last command that edited it, and in a global command the one at
its start too.  It holds through global commands because `Checkpoint` in a list
does nothing, and through `init()` because then there is nothing to undo.  It is
about every command that edits: that each makes a checkpoint, and makes it before
the buffer changes, is what `EditsCheck` and `EditsKeepPast` show.  The rest follows
from `AllInv`, that is `LineInv`, `FlagsOK`, `SeenOK` and `NotedInv`.  `LineInv` says the same (`Kept`)
of the buffer and of what undo would bring back: no line is there twice, no two
lines there were once one line, and each name stands for the line it was
given to, if that is there, and for no other.  It has to be said of both, since `u`
exchanges them, and with the origin of lines instead of the lines, since
`s` makes new ones.  `Kept` is about lines that exist in the temporary file, which only
grows, so that a new line can have no name yet (`KeptMore`).
The first part of the module has the lemmas about `Splice`, `Cut`, `Rotated`, `GDelete` and what
`Substitute` puts together: what they leave, add, and in which order.  Its
theorems for the reader are `RotatedSame` (three reversals are a move) and
`GDeleteSame` (the loop of `gdelete()` with its two indices leaves what is left when the
marked lines are taken out); the latter is an induction over the turns of the
loop with the invariant `TurnDone`.

`CpRm_proofs`, rm: `RmInv` says where each process is: in the directory that its deepest call has
open or in that of the call above it, where rm was started only with an operand, and
never outside the tree (`DirsInside`), however the calls are spread over the
processes (`CallsNest`).  `FdsSpare`, of which `RmTypeOK` has need: a process
that has opened a directory had a descriptor to spare beside those it kept of the one before.  What
somebody moves does not matter, since a call goes on only in a directory
it has opened and compared with what `lstat()` had said, and comes back by a
descriptor.  `Unmoved`, which implies `RmStaysInside`, is inductive with that.

`CpRm_proofs`, cp, mv and ln: `SourceIsSafe` is not inductive, for `trydelete()` removes everything below the
operand without another look at the target.  `CpInv` says what has to be true when it
begins, and which steps make it so.  Common to all is that the directories being
read are above the path, each a level below the one before (`Levels`), and what each place in
the program tells (`Position`).  For `mv` (`MoveInv`), as long as no error was counted,
each datum owed is in the source at a place that is not below the
operand or is still to be copied (`Todo`), or it is in the target, and there at a
place that no operand still to come has (`Moved`); when the removal begins nothing is left to be
copied, and what is below the operand is in the target (`OwedIsHeld`).
That a copy is not written over again needs `FreshTree`: `mv` copies only into a tree it has made, since
`rename()` or `trydelete(tgt, 0)` comes first.  That a linked name may take the place of a copy needs
`CopiesAgree`: the first copy of the file says what the file says, which `freedslots()` and
the source keeping its names until the removal provide.  A name that somebody
makes in a directory that is being read does no harm: either `readdir()` finds it, or
the datum was not owed, or it has the other name as well.
For `cp` and `ln` (`CopyInv`) the source keeps its names and nothing
writes to its files: neither the target (`OwnFiles`) nor the first copy of a
linked file (`CopiesApart`) is a file of the source that is not refused as identical.
What `CpAssumption` asks of the file systems: they are trees, in which a directory has no
data; the last names of the operands differ, for two operands with the same one would be one
path here; and, for `cp` and `ln`, a file of the source
that is below the target too is there under the same path, or where no source
can come.  Without the last `cp a b dir` does write over b's file where dir/a is another name of b,
as it is told to.  `Numbers` is a bound: an action that makes a file asks for
a free one.

`LinkageKept` is about the end alone, and its invariant is `LinkSafe`, upon `CpInv`: as long as
no call has failed, what is not removed yet is as it was found, with its links (`AsFound`), and
what is removed, or copied and now being removed, is in the target with its data and
its links (`Settled`).  Between the two is the operand that is being copied: each of its
files that has had its turn has a copy, and that is the first copy of the file in the
table if the file has other names (`FirstCopies`).  From this `Settled` follows when the
removal begins, because then nothing is left to be copied: two names of one file were one inode
in the source, so that the table had one first copy for them, and that is what both were linked to.
That a copy made without the table is that of a file with a single name needs two things:
`cpmv()` asks for `st_nlink`, which counts all names, those of other operands
and of somebody else as well (`OneName`, by the cardinality of the set of names), and
`canlink()` has found no entry, since an entry is never of an inode that has gone
(`FirstIsCopied`).  `rename()` of a whole operand changes no inode.
Different files become different files because their data differ (`TellsFiles`: what a
file holds is the model's label of the file).  Beyond `CpAssumption` as above this
needs that there are finitely many paths and that `mv` has -d, which `getfl()` sets
(cp/cp.c:1121): without it `cpmv()` does not ask `canlink()`.

`TailXargs_proofs`, xargs: of the four parts of `XargsDivides` the last, that nothing is left over, and
the limits are nearly inductive; that each argument is in one command needs to be told whether
the argument in hand has a place yet (`Placed`, from `toolong` and the place in
`addarg()`).  That a command is ended only for a reason is the hard part, for the reason is known
before the command is run and must be remembered: an argument with no more room is
the first one of the next command (`Reasons`), and a command that `always` ends has as many
lines as -l says, though `linecnt` counts lines as they are read and not as
they are put into commands (`LinesCounted`).  The two agree because -l sets `xflag`, which
`XargsAssumption` says: an argument that does not fit and does not complete its line ends
xargs.  `SizeMore` is about `a_csz`, a recursive function, and `FlattenMore` about the commands one after
the other.

`TailXargs_proofs`, tail: `ShowsTheTail` is about the end, and its invariant `TailInv` about the
buffer before it.  The character at offset `p` is at the place that its distance from `off` gives it,
counted backward from `fill` and around the end of the buffer once that has been filled
(`Filled`, with `Pos`), so that the newlines the code looks for from `fill` backward are
the newlines of the input from its end backward: `LineendsIs` says that the j-th turn of
the loop finds the j-th of them, or the front of the buffer, and `BeginningIs` that the
(N+1)-th is the one before the tail.  That the buffer is long enough is `EndsAreKept`, from
`Fits` and from the two ways in which the buffer lacks characters of the file: because
`lseek()` has begun N * 65536 + 1 characters before the end, and then all up to that end
has been read (`Fills`), or because it was written over, and then it has its
full length (`alcmax`).  With -r the lines are
printed as they are passed, each a part of the buffer that may go around its end (`SpanIs`); that they
are the lines of the tail backwards is `BackwardIs`, where the loop is a turn behind the
definition if the input ends in a newline.  `begintail()` has what it has counted down and what it
has still to count together make N - 1 (`Skips`), and the newline it stops at is the (N-1)-th of
the whole input though it is found in one block (`SkipKeeps`).  Induction is over a set of
numbers (`SetInduction` of `SequenceLemmas`), which needs no operator as a parameter.
`TailAssumption` says that sizes are positive and counts natural numbers.

`DdDiffdir_proofs`, dd: `DdCopies` compares the output to a conversion of the whole input; the
program knows only the record it is putting together and whether it is passing
over the rest of a line.  `DdInv` says how the two belong together.  `Together`: `cblok` is the
line, or the piece, that the characters read so far end in, and `ctrunc` is
1 or 2 just when that line has cbs characters or more.  `Divided`: the output, then the output
block, then what `todo` holds, is the conversion of what was read up to that
record (`InHand`), and with the record flushed it is `Reference`; so a write, which moves
characters from one of the three to the one before it, cannot change it, however short it
is (`WrittenKeeps`).  After a write that fails nothing moves any more, and the output
is a beginning of `Reference`, because it was the first of the three (`OutIsPrefix`).
The conversion is done one character at a time (`ConvStep`), and a block at a
time by induction over a set of numbers: `GoesWith`, which is `Together` with the count of truncated
lines and what the block has given, holds of the characters read with those of the
block taken so far (`BlockNext` and `UnblockNext`, then `StepsGo`, then `TakeKeeps`).
For that the reference has to be taken apart in
the same way: what one more character does to the last line, or the last piece, and to all the lines
before it, by `FlattenNext` and the arithmetic of `%`.  That every write is
for a whole output block but at the end (`Sizes`) needs that `quit()` begins with
nothing left in `todo`, and that what it then writes gets shorter with every short write.
`DdAssumption`: block sizes are positive, and so is cbs if there is a conversion.

`DdDiffdir_proofs`, diff of directories: the program has no list of what it has told; it has a name
in hand, in the directory in hand, and the calls of `stackdiff()` that are not over.  `DirsInv`
says that this is enough: what has been told is what `ToldBefore` puts before the
place in hand (`Place`, `TellsUpTo` in `ToldSoFar`), in that order, and all of it once the
directory at the top is done.  `SetAside` ties the stack to the path: each call is of a
directory that is one name below the directory of the call before, and only the last
may be for a file.  The steps are then about the order alone: from one name to the
next only that name is passed (`NextName`); from the last name to the
subdirectories, into one and out of it no name is passed that is
to be told of (`NamesThenBelow`, `IntoDirectory`, `OutOfDirectory`).  So no induction over the
depth is needed.  That a difference is told of with its own path needs that `argv[0]`
points to the directory in hand (`HereNow`), which is so after a file because
`stackdiff()` puts it back.  `DdirAssumption`: a path leads through directories.

## 5. What was found

Seven statements of the documentation or the comments do not hold; `findings` in
PROJECT.json quotes them and the violation runs show how.  Three were
seen in the compiled programs as well: `sort -m -u` of two files that hold 2 and
1, 2 writes 1, 2, 2; `^a\{0,2\}$` matches aaa; and `fgrep -v x` of a pipe that brings
ab first, and then c with its newline, writes abc and an empty line.

Others were met while modelling and have no run:

* mail/sendlist.c:161: a letter for an unknown user is reported as delivered
  (`UserUnknown` ends with `status` "sent").
* mail/cksaved.c:113: `copystream()` is not checked; when the copy of the save
  file fails half-way, the save file is removed all the same.
* mail/copymt.c:83: SIGINT while new mail is copied makes `delete()` jump out of `copymt()` when a letter
  has been counted but `let[nlet].adr`, its end, not yet set: 0 is taken for the end of the table.  The
  next look at the mailbox copies it from its beginning behind what is there, and a session
  that then writes back loses letters that were never marked, or doubles others.  `cut` has it: when
  `Orderly` and the CONSTRAINT are without it, TLC finds `KeepsPromise` violated so, with one delivery and one session,
  and entries of the table that lie behind the end of the file.  In `lock()` the same jump is harmless but that
  the lock is kept while commands are read.
* mail/printmail.c:122 and copyback.c:66: two sessions of one user: the mailbox is
  opened before it is locked, and new mail is told by the size alone, so that one
  session may write back what the other has replaced.
* mail/printmail.c:187 and 300: without `-r`, new mail at the prompt, or `h` with a
  number, makes the next command dispose of a letter that was not displayed.
* mail/printmail.c:211: with `-h`, `p` before any other command asks for letter -1.
* shl/shl.c:604: `setprev()` takes the list for empty when the current layer is the
  first one; with a deleted layer behind it that layer is dropped from the list.
  `NoLayerForgotten` says how far it goes.
* shl/shl.c:846: output of a layer that was freed in the same round of `poll()` makes
  `lbypty()` return NULL.
* shl/shl.c:1388: when a layer ends while a command is being typed, `getaline()`
  returns what has been typed so far and it is run as a command.
* ed/ed.c:1238-1245 and 1667: the growth of the array (see `wild` and `Substitute`).
* ed/ed.c:648: `r` into a buffer that was emptied clears `fchange`.
* ed/ed.c:1388: `g/.../d` with one match leaves the current line one further than
  `d` does.

* cp/cp.c:1035: `mv` of a directory onto a directory that is not empty and on another
  device leaves the source where it is and exits with 0 (`ExitTellsTheMove`).
* rm/rm.c:304: a process made by `subproc()` keeps the descriptors of the one before,
  so that a tree that is deep enough cannot be removed in spite of it
  (`RmNeverForFds`).
* tail/tail.c:359: `tail +n -f` of a file that is too short yet begins anywhere in what is added; `tail -r` of an empty input prints what is in memory (`ShowsTheTail` asks nothing of
  -r when the length is 0); `tail -0f` reads on as if nothing had been asked (its case
  `Nothing`).  A tail that does not fit into the memory there is, is left out by the last disjunct.
* xargs/xargs.c: an argument that does not fit and completes its line is carried into
  the next command, which then has one line more than -l says (`LinesAsGiven`); -s
  does not count the words of the command; with -x and -n an argument that can never
  fit is tried for ever.
* sort/sort.c: `sort -c -o f f` empties f before it is read, and finds it in order (`Checked`).
* sort/sort.c:827: with fewer operands than files that are merged at a time, the index
  that `safeoutfil()` begins with is negative.
* dd/dd.c:680: the count of full records of output is about what was to be written, not
  what a short write has written (`RecordsCounted`); dd/dd.c:704 and 733: the rest of a
  block is moved by `memcpy()` to a place that overlaps it; dd/dd.c:657: a write error in
  a conversion whose records are larger than the output block is followed by
  `quit()`, which flushes, which fails again, without end (`dat` is "recursion").
* libuxre/regdfa.c:721: `leftmost()` gives up at a position from which only a longer
  alternative would have gone on: `xa$c|a` does not match xa.  regdfa.c:609: what a
  state does at the end of the string is noted in the table under the flags of the
  first call that came there, so that a later call with another REG_NOTEOL may be answered as the first.
  Both are in the instance, and `MatchesMean` says how far they go: TLC finds it violated when `GivesUp` is
  taken out of it, or when the second call is to be answered by its own flags.
* diff/diffdir.c:158: `diffdir()` sets `status` to 0 and `stackdiff()` does not put it back:
  `diff -r` of two directories exits with 0 although files differ, when a
  subdirectory that is looked at later has no difference (`DiffExitTells`, confirmed
  with the program).  In the same way -B resets it, and 2 becomes 1 again.
* diff/diffreg.c:456: `readhash()` returns 0 at the end of a file, and for a line whose
  32 bits come out as 0: the rest of the file is not compared, and two files that
  differ only there are the same for `diff` (confirmed).  `len` in `Diff` has it, and
  `DiffRecreates` speaks of the files as far as they are read.
* diff/diffreg.c:1056: a record that is full (129 changes) is written with its context, and
  the next one begins with the same lines; -B with -c or -u leaves out changes that
  the numbers of the hunk count.  `DiffRecreates` leaves both out.
* dc/dc.c:809: `removr()` drops more digits than there are and reads the rest as EOF,
  which is -1: `0k .0005 3 %` is -.0095.  Digits are dropped of a negative number as of
  any other, whose last digit then is rounded the other way: `0k _.19 1 /` is -1.
* dc/dc.c:198: `^` reads the exponent with `sgetc()`, to which 0 has no digit: `.909 0 ^`
  prints `10./`.
* dc/dc.c:650: a zero that consists of digits, which `0 333 %` leaves, is a divisor to
  `v` (`DcScripts` has it, and `died`: the program ends with a signal) and a
  second `0 333 %` says it divides by 0.
* dc/dc.c:1632: when there are too few operands, - leaves the one there is with its sign
  changed, ^ leaves it without the digit it has taken for its scale, and / of a divisor
  that is 0 drops the dividend.  dc/dc.1:76 says that the fraction of an exponent is
  ignored: `exp not an integer`.
  All of this was seen in the compiled program; `DcComputes` says of each what it leaves out.
* sed/sed1.c:206: an n or N that meets the end of a file which is not the last is executed
  again from its start with the first line of the next one: `sed N f1 f2`, of files of
  one line, has two newlines between the lines, and `sed n f1 f2` prints the first line
  twice.
* sed/sed1.c:234: a range to a number that is not greater than its first line stays open
  until the command is reached again, but for the variants for the standards (line 272):
  `sed -n /x/,1p` of four lines x prints the first and the third, and `2,1c` never writes its
  text.  sed.1:105-109 says "only one line is selected" and "Thereafter the process is repeated".
* sed/sed1.c:365: s with a number that finds fewer matches returns 1 and resets `sflag`:
  `s/a/b/2p` prints a line with one a, unchanged.
* sed/sed1.c:742: `$` is the last line of the last file that is named: when that is empty or
  cannot be opened there is none.
* sed/sed1.c:726-748: a last line without a newline is given one, and its file is closed; when `$` or c is in
  the script, the loop then looks for more, does not read, and takes the code of the newline, which is still in
  c, for the number of characters in the buffer: 10 of them are read again.  In the
  last file that is an additional line or more (`sed -n '$p'` of a alone writes an empty line as well); in
  another one it happens again at the end of those, without end.
  All of this was seen in the compiled program, too; `astray` marks it.
* grep/ac.c:543: `cfail()` looks for a link in the state that the link before leads to and
  in the first one, and in none between: `fgrep aabaaac` does not find
  aabaaabaaac, and of the words abcdz, bce and cdx it does not find cdx in abcdx.
* grep/ac.c:422: `cgotofn()` returns at the end of the words without marking the state where
  it is, if no letter of the last one was new: of the words abc and ab the second is not
  looked for, unless they come from a file.
* grep/ac.c:208: with -v and -x, `ac_range()` does not ask what made a word fail:
  `fgrep -v -x b` does not print ab, but does when two buffers bring it.
  These three were seen in the compiled program; `Divergent` leaves them out.

## 6. Limits

Only model-checked: the programs of `MCTools` but for mail's dialogue, `cp`, `rm`,
`tail`, `xargs`, `dd` and diff of directories; and all liveness, since the proof system has no rule for fairness here.
The theorems of the library for induction take an operator that the provers
cannot be given.  What they say of a set can be used: a property of numbers is
proved by the set of the numbers that have it, and of a recursive function by
the set of its arguments at which it is as it should be (`SequenceLemmas`).  For that
the functions have to be written as functions: `GDelete` of `Ed`, `Mark` and `Letters` of
`Mail`, `Reversed` and `Backward` of `Tail`,
and the conversion of `Dd`, which were folds, are recursive functions of the turn of
the loop.  `FoldLeft`, `SelectSeq`
and RECURSIVE operators remain out of reach; the
specifications that `Diff`, `Sed` and others are compared to are of that kind.

Excluded by what the properties say: `crowd` in `Mail` records that two processes
were in the mailbox at once, which the lock does not prevent (`lock_stale`,
`mail_unlocked`); what is lost afterwards is not counted, nor what is after an
interrupt that has left the table half made (`cut`).  `killed` records that a
process was killed in the middle of a copy, after which the mailbox may have half
a letter or a letter twice; that no letter is lost holds then, too.  Two readers of
one mailbox are possible in `Mail` but not run, for they lose letters as described
above without ever being in the mailbox at once.

Left out by the properties of section 5 in the same way: what is stated beside each
of them.

`purged`, by which `NoLetterLost` knows what the owner has deleted, is what `copyback()` did
not write back of what it had read; a letter that it leaves out without a mark, as above, is not told
from those the owner has deleted.
`KeepsPromise` compares the marks with the letters as well, by their numbers.

Small things the models leave out, or have more of than the code:

* `WriteFrom`: `copylet()` keeps the offset to which it cuts the file back as an `int`
  (mail/copylet.c:63); a mailbox is shorter in the model.
* `SignalReading`: what stdio still has for the save file, which `exit()` writes after the unlock.
  `OpenSave`: the name `mkstemp()` makes is always the same one.  `TakeNewMail`:
  the ends of `copyback()` by a failed `copystream()`, another's mailbox and no save file at all are
  one, before anything is written (`CopybackFails`).  The temporary file is not
  closed between two uses, so that a jump of `delete()` in between, after which the next
  use ends the program, is one of the ends by `SignalReading`.
* `MaxArgs`: the NULL behind the last argument (xargs/xargs.c:435-437, 480) has no place of its own.
* `Creat`: a second `creat()` that fails after the target was unlinked (cp/cp.c:574-582); `ReadDir`: that the
  names below an operand may be looked at with `stat()`, which follows links (cp/cp.c:1015).
* `Unlink` of rm: a process that `subproc()` has made does not remove what is no longer a directory
  (rm/rm.c:287); the model does.
* `Subdirectory`: `setupdir()` that cannot open a directory (diff/diffdir.c:336-338); that -u prints no
  `Common subdirectories`.
* `unsafeout`: the negative index (sort/sort.c:837), see section 5.

Not modelled: the headers and contents of letters, forwarding and remote mail, `-f`,
and what commands write to other files; names of layers, terminal settings and
the subshell in shl; the current line and the defaults of addresses, the blocks of
the temporary file and the files that `w` writes in ed; modes, owners, times, the
set-id bits and the messages of cp; keys and their comparison in sort; quoting in
xargs; the tables of characters and the tapes of dd; the parser, brackets,
multibyte characters and back references of libuxre; the sum that `readhash()`
makes of a line, -h, -l, -N and -s of diff; registers, strings, arrays, bases and printing
of dc; y, l, r, w, and the syntax and regular expressions of sed; -b, -h, -r, -z, -f together
with -e, and multibyte characters of fgrep.  The parts without a module are in
PROJECT.json with the reason: most of them read one thing and print it, where the
layout is the program; of the rest, the interpreters (`nawk`, `oawk`, `bc`) are as
large as the programs they are given, and the archivers (`cpio`, `tar`) are formats.

## 7. The plan

Done: `MailLock`, `Mail`, `MailSession`, `Shl`, `Ed`, `Cp`, `Rm`, `Tail`, `Xargs`, `Sort`,
`Dd`, `Regdfa`, `Diff`, `Diffdir`, `Dc`, `Sed`, `Grep`.  `Cp`, `Rm`, `Tail`, `Xargs`, `Dd`, `Diff`,
`Diffdir` and `Grep` have no RECURSIVE operator and can be proved about; `Sort`, `Regdfa`, `Dc` and `Sed`
are for TLC only.

To be modelled next: `bdiff` and `diff3`, which put the line numbers of pieces
together; `comm`, `join` and `tsort` against relations; the
tables of linked files of `cpio` and `tar`.

Theorems to come: `DiffRecreates` and `GrepSelects`, whose models are without
RECURSIVE operators; `DiffRecreates` once the specification it is compared to is
written over the whole of both files, as that of dd is.
