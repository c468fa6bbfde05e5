# Verification of code_stream

code_stream is a small C++ program and library. A *Codestream* object holds a
chain of procedures ("op-chain") that a detached worker thread applies to some
data, step by step, while other threads may stop, restart, recover or edit it.
The program reads a file or standard input in chunks, encodes or decodes every
chunk with one such object and writes the result.

The modules here model the concurrent core (the engine, the loop that drives it and
the test program that stops and restarts it), the codecs with their wrappers, the
data source and the program with its options in TLA+. TLC checks them on small
instances; TLAPS proves the most important results for every instance.

## 1. Inventory

| component | source | state it keeps | operations |
|---|---|---|---|
| op-chain engine `Codestream` | `src/codestream_abstract.cc/.h` | the chain, the index `_ip` and its start, the last result, `_flags`, `_cerror`, `_state`, `_state_when_error_occur`, three mutexes, two condition variables | install (append / at a position), uninstall, setStartPoint, toggleOpDirection, coding, stopCode, restartCode, programErrorRecover, waitForStateMove, the worker loop startCode, resetCodestream, the getters, the destructor |
| coding loop | `codestream.cc` (`main_coding`, `main_optionf_eandd`), `codestream.h` | the two buffers with their lengths, `main_error_code` | read a chunk, coding, wait for a state to move, recover, write |
| coding wrappers | `ops_wrapper.cc/.h` | key, initialisation and "last wrapper" record | xor, otm and base64 encode / decode wrappers, the work-together wrapper that swaps the buffers |
| codecs | `operation_definition.cc/.h` | none, but for the otm tables | xor, one-two-map, base64 |
| data source `Csdsin` | `csdsin.cc/.h` | the kind of source, the stream and whether it is initialised | initCsdsin, readCsdsin, closeCsdsin, iseof / isbad / isfail, destructor |
| program entry | `codestream_main.cc`, `codestream.cc`, `codestream.h` | what the options have set: the key, the chain and its name, `if_f_got`; `main_error_code` | the loop over getopt, ops_wrapper_init, main_optionf_eandd, main_coding, the exits |
| test programs | `*_test.cc` | the int of `codestream_abstract_test.cc` | code, stop, restart or recover, wait, print; the others make single calls of the codecs and wrappers |

**Interaction.** Callers and workers share the object through three mutexes:
`_state_mutex`, `_ip_mutex`, `_flag_error_mutex`. `coding()` starts a detached
worker; a worker that sees a state other than PROGRESSING waits on
`_work_condition`, which `restartCode` notifies; every change of the state
notifies `_state_migrated_condition`, on which `waitForStateMove` waits. Both
waits are made on private mutexes and without a predicate. The program's loop
shares its two buffers with the worker's wrappers without any lock: the wait is
the only thing that orders them.

**What is hard**, and which properties it calls for:

* *the locks.* The header prescribes an order; operations nest them both ways.
  Every early return has to release what it holds.
  (`LockDiscipline`, `NoLockCycle`, `NoDeadlock`, `DeadlockNeedsStateHolder`)
* *the life of a worker.* The state says SHUTDOWN before the worker has left;
  tests of the state are made in one critical section and acted on in another.
  (`AtMostOneWorker`, `NoOrphanedRun`, `NoWorkAfterEnd`, `RunsEndUninterrupted`,
  `WorkersEndUninterrupted`)
* *the index.* It is compared with the recorded end of a chain that others edit
  meanwhile, and right to left the comparison is no test.
  (`IndexKept`, `ResultIsWholeChain`, `PrintsWholeChain`)
* *stops and restarts.* They race with the fetch of the next procedure and with the end
  of the run, and an error may come on top of either. (`ImplementsChainRun`)
* *errors.* The code of an error and the ERROR state are written under different
  mutexes, and the state to return to can itself be ERROR.
  (`TrapNeedsTwoErrors`, `NoTrap`)
* *condition variables without predicates.* Notifications are lost, wakeups are
  spurious, a recovery notifies nobody. (`SleeperWoken`, `TestEnds`, `HangsOnlyByRace`,
  `WaitAnswered`, `WaitReturns`, `ImplementsStream`)
* *lengths and tables of the codecs.* Room is tested before padding; failures are
  reported as an empty output; a text and its decoding must agree through any stack
  of codecs. (`BuffersFit`, `DecodesBack`)
* *one key in three places.* The keys share a union, work only before the one
  initialisation, and must agree between the process that encodes and the one that
  decodes. (`WrapperTypeOK`, `DecodesBack`, `DecodesWhatItEncoded`)
* *the options.* Each takes effect when getopt meets it, in a variable of its own,
  and they may come in any order. (`OptionsInAnyOrder`)
* *the kind of the source.* `_df`, `_init` and `_csdsin` are set one by one and
  then trusted by casts. (`NoNullCast`, `ImplementsReader`)
* *the end of the data.* The loop ends only by eof or bad; chunks must be cut so
  that no `=` ends up inside the output, and never be empty. (`EofMeansAll`,
  `NothingMeansEnd`, `NoEmptyChunk`, `ProgramEnds`, `DecodesWhatItEncoded`)

## 2. Modules

| module | what it is |
|---|---|
| `CodestreamState` | variables of one Codestream object and its threads, `InitWith`, vocabulary |
| `Codestream` | the operations and the worker loop, one action per critical section |
| `CodestreamProperties` | the type invariant and what the engine promises |
| `CodestreamClients` | arbitrary clients calling the public methods in any order |
| `ChainRun` | abstract specification: one run at a time over a chain, step by step, with stops |
| `ClientsProperties` | the refinement: how the engine implements `ChainRun` for its clients |
| `MCClients` | bounded instances of the clients: call budgets, initial chains, fairness |
| `MainCoding` | `main_coding` composed with the engine, its workers and the buffers |
| `Stream` | abstract specification: chunks are written once each, in order, coded |
| `MainProperties`, `MCMain` | properties of the loop, the refinement, bounded instances |
| `AbstractTest`, `MCTest` | the test program of the engine, with its int and its end; the bounded instance |
| `CodestreamSafetyProofs`, `CodestreamRunProofs` | theorems about the engine, the second with the refinement |
| `TestProofs` | theorems about the test program |
| `MainProofs` | theorems about the loop, with the refinement |
| `Codecs` | xor, base64 and the one-two-map as operators over sequences of bytes |
| `OpsWrapper` | keys, `ops_wrapper_init` and the wrappers over two buffers |
| `WrapperUse`, `MCWrapper` | a user who encodes in layers and decodes them; bounded instances |
| `CodecProofs`, `WrapperProofs` | theorems about them |
| `Csdsin` | the data source and the streams behind it |
| `Reader` | abstract specification: what was opened comes out in order, once, completely |
| `CsdsinUse`, `MCCsdsin` | users of a source, its properties, the refinement; bounded instances |
| `CsdsinProofs` | theorems about it |
| `Program` | `main()` over the data: options, a process that encodes, one that decodes |
| `ProgramProperties`, `MCProgram` | what the program promises; bounded instances |
| `ProgramProofs` | theorems about it |

How they fit together: `Codestream` is the concurrency, `OpsWrapper` and `Csdsin`
are the data. `MainCoding` composes the engine with the loop and keeps the data
abstract; it is shown to implement `Stream`. `Program` composes wrappers, source
and loop over real bytes and puts what `Stream` promises in the place of the
engine: the chain runs once, in order, between the reading and the writing of a
chunk. `Stream` holds for the loop except for the divergences of section 5. It does not
promise that the coding of a chunk ever returns, so `Program` is not fair to it.
`AbstractTest` is the other user of the engine: `MainCoding` never stops a run,
`AbstractTest` does. `ChainRun` says what the engine promises a user of that kind.

### How the engine model corresponds to the code

* **Steps.** A step is one critical section. A section entered while another
  mutex is held is a step of its own, so every order of nested acquisitions is a
  behaviour. Releases belong to the last body: between two releases nothing is
  acquired. The pc labels name the acquisition a thread is about to make, the
  sets `StateHeldAt`/`StateWantedAt` (and so on for the other two) say what it
  holds and needs there.
* **Chain.** `code_procedures` is the vector and `ip_end` the end recorded by the
  constructor and the installs, which is what the index is compared with before the
  vector is read. `_cp_end` gets the same values and `_ip_start` is always 0, so they
  are not variables. A null
  function object (left by an uninstall) is `NoProc`. The index keeps the code's
  comparison of a signed short with a `size_t`: `PastEnd` holds for a negative
  index, and right to left the test is always true.
* **Worker.** `f` and `ret` are the locals of `startCode`. What a procedure does to
  the data is abstracted to the list of procedures applied, so that a skipped,
  repeated or reordered one shows in the result.
* **Exceptions.** An exception that leaves a detached worker ends the process:
  `terminated`. The exception of `programErrorRecover` goes to its caller, which
  the loop catches (`MainRecovered`).
* **Condition variables.** `work_waiters` and `migrated_waiters` are the blocked
  threads. `notify_one` removes one waiter or, if there is none, does nothing. A
  wakeup without notification is possible when `SpuriousWakeups` is TRUE.
* **Inputs.** An install position is at most one past the end plus one and a
  start index is below the length, the values for which the vector's iterators
  are defined.

### How the engine implements `ChainRun`

A run of `ChainRun` has a `place` (no run, between two slots, one slot in hand, applied
and not yet published), the number of slots it is through with, the data and a
`status`. The mapping takes them from the one living worker: its pc gives the place,
`_ip` the number of slots, less one while a fetched procedure has not run, `ret` the
data. `status` is what the users see: `going` for PROGRESSING, `over` for SHUTDOWN and
for an error that came after the end of a run, `held` for the rest. The critical
sections that neither pass a slot nor change the status are stuttering steps.
`ChainRun` lets a run go on only when the status is `going`, so a stop or an error is
followed by at most the slot in hand, and makes it `over` only by its own end. That is
promised to users who install at the end of the chain only and begin no run over a
living worker (`NoOverlap`), which `coding()` itself does not see to.

### How the loop model corresponds to the code

`mpc` is the place in `main_coding`. A chunk is a value; a buffer with its
length is `<<chunk, wrapper, ...>>`, or `Nothing` for length 0, which is also
what a failing codec leaves. The work-together wrapper swaps the buffers. Chunks
in `Malformed` are those that base64Decode refuses. The chain is empty (called
before any chain was chosen), the encode chain or the decode chain. `disturbed`
is a history variable: it records that the loop went on before a run was over or
that `coding()` started a worker while an older one was alive.

### How the test program corresponds to the code

`tpc` is the place in `main()` of `codestream_abstract_test.cc`; its four
`installProcedure` calls, one of them with a null function, are the initial chain.
`value` is the int, as the list of functions applied to it: a worker appends to it
when it executes a function, and the program reads it under no mutex. `a` says
whether `getLastResult` gave a pointer, `r` is what was printed last. `Destroy` is
the destructor, which clears the chain under `_ip_mutex` and leaves `_ip_end`. A worker
that is still there goes on over the destroyed object, whose words the model leaves as
they were, until `ProcessEnds`, the return of `main()`, takes the detached threads with
it. `lost` is a history variable: it records which of the races that the program can
lose were lost.

### How the data modules correspond to the code

* **Bytes.** A text is a sequence of bytes, a buffer its content up to its length.
  Both buffers have the same size `BuffSize`, as `main()` and the tests allocate
  them. Every codec is an operator for its output and one for its refusal (-1). The
  wrapper turns a refusal, or a negative length, into an empty output.
* **xor** is computed bit by bit. **base64** uses `Sextet` and `Joined` for the
  shifts and masks. **The one-two-map** is defined for the bytes whose quotient is
  an index of its tables (`OtmByte`, 0 to 146). `sortHashList` is written in closed
  form; `MCWrapper` compares it with the exchange-by-exchange loop on every run.
* **Keys.** `gckul` is the union; `ops_wrapper_xor_key` writes its lowest byte. The
  tables and the xor key are taken from it once, in `ops_wrapper_init`.
* **Streams** (external): a read gives what is left, up to the size asked for, and
  sets eof and fail when that is less; a stream with a bit set gives nothing; a
  file may break in any read. A stream and what was typed into it outlive the
  object that reads it.
* **Users of a source** do not call `initCsdsin` with another kind on an open
  source, which is how the program uses it.
* **The end of a source.** `DestroyCsdsin` leaves the streams as they are: an
  object that reads the standard input next goes on where the last one stopped.
* **Options.** A command line is the sequence of options getopt finds in it, in
  any order and number; `argv` and `optind` are the line and the place in it. The
  argument of `-k` is the number that strtoul makes of it; `-h`, an unknown option
  and fewer than three words end the program with the code of the source.
* **Program.** `mpc` is the place in `main()`; a process that has succeeded may be
  followed by one that decodes what was written. `original` and `key` are history.
  `KeyOf`, `ModeOf`, `KindOf` and `Places` read a command line as a whole, for the
  properties and for the choice of initial states: data given on the command line
  itself holds no zero byte.

## 3. What is checked

| run | module | question and result |
|---|---|---|
| `chain_edits` | MCClients | two clients code twice, install, insert, uninstall, move the start point and switch the direction while up to two workers live: the type invariant; the index goes at most one step beyond an end of the chain, and `vector::at` kills the process only from right to left; no run without a worker. Holds. |
| `error_protocol` | MCClients | two clients code, uninstall, stop, restart, recover and switch the direction: mutexes are given back on every path, the "ERROR without a code" trap needs two errors in a row, every deadlock involves a holder of `_state_mutex`. Holds. |
| `one_run` | MCClients | one client and one worker, chains with gaps, installs, stops, restarts and recoveries, with spurious wakeups: the engine implements `ChainRun`; the result at the end is the whole chain, in order, once; and if nobody stops, restarts or recovers, every run ends and every worker leaves. Holds under fairness. |
| `second_worker` | MCClients | violation: two workers alive at once. |
| `recover_deadlock` | MCClients | violation: a circle of threads waiting for each other's mutexes. |
| `abstract_test` | MCTest | the test program with spurious wakeups: when it prints its last value and destroys the engine no worker works any more; if it returns 0 it has printed the whole chain; it is left waiting for a notification that nobody can give only after one of five races; it ends unless it loses one of them or two threads deadlock. Holds under fairness. |
| `lost_restart` | MCTest | violation: the test program restarts its run, and the worker sleeps for ever. |
| `main_stream` | MCMain | the loop over two chunks (the second malformed), all three chains, spurious wakeups: it implements `Stream`, never frees buffers in use, never meets the trap, has no deadlock on its mutexes unless it was disturbed, and a wait that begins in time is answered. Holds. |
| `main_hangs` | MCMain | violation: `waitForStateMove` called after the run ended never returns. |
| `wrappers` | MCWrapper | up to three codecs on top of each other in any order, with keys set early, late and twice: buffers never overflow, undoing the layers gives back the text. Holds. |
| `csdsin` | MCCsdsin | all three kinds of source opened, failing, read, broken, closed and destroyed in any order: it implements `Reader`, casts never fail, the end is always seen. Holds. |
| `round_trip` | MCProgram | every command line of up to four options, and longer ones over files of many lengths, encoded by one process and decoded by the next, with matching and other keys and every kind of source on each side: the options count in any order, no empty chunk is coded, the decoder writes what was encoded, and every process ends unless a coding does not return. Holds under fairness. |

The five races of the test program (`lost`), none of which the code excludes: the
stop comes after the run has ended (`late_stop`), or the run ends between the stop
and the restart (`late_restart`); the worker starts to wait for a restart that has
happened (`late_park`); `main()` starts to wait for an end that has happened
(`late_wait`); a recovery to PROGRESSING finds the worker waiting and does not
notify it (`silent_recovery`). `HangsOnlyByRace` and `TestEnds` show that there is no
sixth way to wait for ever.

**Bounds.** Two clients and two workers: an engine conflict is between two
operations, or an operation and a worker, and a third thread adds no new pair of
nested acquisitions; two workers are the fewest that overlap. When every worker
id is in use `CodingSpawn` waits, which only removes behaviours. Each operation is
called as often as `Budget` says (once or twice); the effects looked for need two
calls of `coding`, of `programErrorRecover` or of `stopCode`. Chains have up to
three slots plus what is installed, one of them empty. The loop sees two
chunks: one hand-over from a chunk to the next, one malformed chunk. The test
program needs no bounds: its calls, its chain of four and its one worker are those
of the source. `round_trip` has every sequence of at most four of the seven
options over one text, which is every order of two options that are given twice;
its other command lines are the usual ones, over all files.
The data runs use buffers of 16 bytes, whose `ENCODE_INPUT` is 6, so that texts
of up to 20 bytes give several chunks and a decoding chunk holds two encoding chunks;
texts cover every length modulo 3 and the bytes at the edges (0, `=`, 146, 255).
Sources hold up to four characters and are read in ones, twos and threes.
Client and worker ids are interchangeable; symmetry is used only in runs without
liveness properties. Runs with call budgets really stop when the budgets are
spent, and the program's loop stops at its exit, so deadlock is not checked;
`NoLockCycle` states what deadlock means here.

**Fairness.** Weak fairness of each thread's next step: a thread that is not
blocked is scheduled. Clients need not start calls. A mutex that is free again
and again may still be lost to others for ever, as the standard allows, because
only weak fairness is assumed. Spurious wakeups are possible and never guaranteed.
`abstract_test` assumes it of `main()` and of the worker, both threads of one
process. `round_trip` assumes weak fairness of the steps that `main()` makes itself
(`MainStep`): not of the coding of a chunk, which waits for a worker that may have
notified too early (`main_hangs`), and not that a second process is ever started.

Every property has a *mutant*, an operation changed as a slip in the code would,
under which the run violates it; it stands before the operation it is a slip of, marked
"Faulty".

## 4. What is proved

### The engine

For every set of clients, workers and procedures, every set of operations, every
set of initial chains:

| theorem | module | statement |
|---|---|---|
| `TypeCorrect` | `CodestreamSafetyProofs` | `ClientsSpec => []TypeOK` |
| `MutexesReturned` | `CodestreamSafetyProofs` | `ClientsSpec => []LockDiscipline` |
| `DeadlocksCharacterised` | `CodestreamSafetyProofs` | `ClientsSpec => []DeadlockNeedsStateHolder` |
| `OneErrorIsRecoverable` | `CodestreamSafetyProofs` | `ClientsSpec => []TrapNeedsTwoErrors` |
| `ChainNeverLeft` | `CodestreamSafetyProofs` | `ClientsSpec => []IndexKept` |
| `RunsAreServed` | `CodestreamSafetyProofs` | `ClientsSpec => []NoOrphanedRun`, if no client restarts |
| `RunAppliesWholeChain` | `CodestreamRunProofs` | `ClientsSpec /\ []NoOverlap => ResultIsWholeChain`, if clients install at the end only |
| `EngineImplementsChainRun` | `CodestreamRunProofs` | `ClientsSpec /\ []NoOverlap => ImplementsChainRun`, under the same condition |

The arguments. `TypeOK` is inductive together with the fact that a worker at
`exec` holds a real procedure. `LockDiscipline` is inductive given the types: each
operation's labels determine what it holds. A deadlock circle whose members hold
no `_state_mutex` would have to be closed by the two other mutexes, and those are
always nested the same way round; this is a consequence of `LockDiscipline`, not
an invariant to be strengthened. `TrapNeedsTwoErrors` is not inductive: `ErrorInv`
adds that between the recording of an error and the move to ERROR the code is
there, which rests on the locks the failing call holds. `IndexKept` needs
`IndexInv`: the recorded end is the length of the vector, the start point is in the
chain, and the index is between -1 and the end; it holds with the switch of the
direction, because a fetch from beyond the chain is the last step of the process. An
uninstall keeps it because it empties a slot and does not remove it. `NoOrphanedRun`
needs `RunInv`: without `restartCode` the state
PROGRESSING comes only from `coding` or from a recovery to it, so the state saved
by an error counts as well. The assumption is needed: an object whose failed uninstall
was recovered to SUSPEND becomes PROGRESSING without a worker when it is restarted.

The last two theorems are about a run and its data. `WholeInv` says, of the only worker,
that its data is the chain up to `_ip` (`Progress`, in terms of `InOrder`), one slot
less while a fetched procedure has not run, and that what it has saved was published.
It is kept by a step of the worker through the lemmas `InOrderGap` and `InOrderApply`,
and by an install through `InOrderInstall`; an install cannot come between the worker's
last look at the chain and SHUTDOWN, because both happen under `_ip_mutex`. A run that
applies nothing would leave an older result to be seen: `SomethingInstalled` shows that
there is none. The refinement adds `StatusInv`: as long as a worker is alive no recovery
moves ERROR to SHUTDOWN behind its back. The only error recovered to SHUTDOWN on its own
account is that of a missing chain, which can be recorded before the first install only,
and every later error overwrites its code. Both need the condition `NoOverlap`: the run
`second_worker` shows what happens without it, two workers that share one index. It is a
condition on the callers, which the test program meets (`TestBeginsAlone`). The
other condition, `AppendOnlyOps`, leaves out the operations that change the meaning of
the index in the middle of a run: insert, uninstall, setStartPoint and
toggleOpDirection.

### The loop

| theorem | module | statement |
|---|---|---|
| `LoopIsClient` | `MainProofs` | `MainSpec => ClientsSpec`: what is proved of the engine holds in the program |
| `LoopNeverTraps` | `MainProofs` | `MainSpec => []NoTrap` |
| `NothingRunsAfterExit` | `MainProofs` | `MainSpec => []NoUseAfterExit` |
| `LoopNeverDeadlocks` | `MainProofs` | `MainSpec => []NoDeadlock` |
| `LoopServesRuns` | `MainProofs` | `MainSpec => [](NoOutOfRange /\ NoOrphanedRun)`: nobody switches the direction, so `IndexKept` leaves no way out of the chain |
| `LoopImplementsStream` | `MainProofs` | `MainSpec => ImplementsStream` |

They hold for every input, every set of malformed chunks and any number of workers,
with spurious wakeups. The invariant comes in two parts. `EngineInv` says what the
engine cannot do when the loop is its only caller: the state is never SUSPEND, the chain
stays what it was, the only error is a missing chain, and its code is still there
whenever the state is ERROR. From it follows `NoTrap`. `StreamInv` says where the loop,
the one worker and the buffers are, as long as `disturbed` is FALSE: which part of the
chain has been applied (`Running`, `Stage`), that the second buffer holds the complete
chunk when the run is over and the loop is about to write, and that between two runs the
state is SHUTDOWN and no worker is inside the chain (`AtRest`). `disturbed` is what makes
it inductive; it is part of the state, set by what happens, not an assumption: `Stream`
promises nothing after its step `Disturb`. `NoDeadlock` joins the two parts: a circle
needs a holder of `_state_mutex` (`DeadlocksCharacterised`), which can only be the loop
in the reset of `coding()`, and there `StreamInv` says that no worker holds another
mutex. Once a run was begun over a living worker the circle is possible: the reset of a
third chunk against the second of two workers that end.

### The test program

| theorem | module | statement |
|---|---|---|
| `NothingWorksAtTheEnd` | `TestProofs` | `TestSpec => []NoWorkAfterEnd` |
| `PrintedValueIsWhole` | `TestProofs` | `TestSpec => []PrintsWholeChain` |
| `OnlyRacesHang` | `TestProofs` | `TestSpec => []HangsOnlyByRace` |
| `TestBeginsAlone` | `TestProofs` | `TestSpec => []NoOverlap` |

They hold for any number of worker ids, with and without spurious wakeups. `TestInv` has
one conjunct for each thing the program relies on: `Control` says which places of a call
go with each place of `main()`; `BeginInv` that before the one run there is no worker;
`DataInv` that there is at most one worker, whose `ret`, the int and the last result are
the chain up to the index (the result trails behind between the execution and the save);
`EndInv` that once the run has ended, behind an error too, the whole chain is applied and
published and no worker is still inside an iteration; `StateInv` which states are
possible at each place of `main()`; `PrintInv` what was printed; and `LostInv` that a state in which somebody
sleeps through a notification was reached by one of the races in `lost`. The
first three statements are also checked by `abstract_test`, with one worker id.

### Codecs, wrappers and source

| theorem | module | statement |
|---|---|---|
| `XorRoundTrip` | `CodecProofs` | coding twice with one key gives back the text |
| `Base64RoundTrip` | `CodecProofs` | decoding gives back every non-empty text |
| `OtmRoundTrip` | `CodecProofs` | so does the one-two-map, for `OtmByte`s and tables without repetitions |
| `Base64EncodingFits` | `CodecProofs` | the early size test is enough if the size is a multiple of 4 |
| `EncodingOfPiece` | `CodecProofs` | a piece after whole segments has the encoding that stands at its place |
| `WrappersStayInBuffers` | `WrapperProofs` | `UseSpec => []BuffersFit` |
| `WrappersKeepTypes` | `WrapperProofs` | `UseSpec => []WrapperTypeOK` |
| `WrappersDecodeBack` | `WrapperProofs` | `UseSpec => []DecodesBack` |
| `SourceTypeCorrect`, `CastsSucceed`, `EofIsTheEnd` | `CsdsinProofs` | `SourceSpec => []SourceTypeOK`, `[]NoNullCast`, `[]EofMeansAll` |
| `LoopMeetsTheEnd` | `CsdsinProofs` | `SourceSpec => NothingMeansEnd` |
| `SourceImplementsReader` | `CsdsinProofs` | `SourceSpec => ImplementsReader` |

The codec theorems hold for texts of every length. xor goes bit by bit: a byte is
the sum of its bits (`ByteBits`) and they can be read off a sum (`SumOfBits`). base64
goes segment by segment: `Segment` is the arithmetic of three bytes and four
indices, `Base64Encoding` describes the padded text, `Alphabet` says that the `=`
sign is outside the mapping, from which the decoder counts exactly the signs the encoder
put there. That the one-two-map's own tables have no repetition after sorting, for
every key, is proved too (`SourceTables`, `SortedTable`): sorting is a permutation
of the places. `MCWrapper` evaluates the same as an assumption.

`BuffersFit` is inductive together with both buffers being sequences. `DecodesBack`
is not inductive, because it speaks of a buffer only when nothing is left to undo.
`UseInv` adds `KeyInv` (the objects hold, at all times, a key byte and two tables
without repetitions), that nothing is encoded before the initialisation, and `PackedInv`;
that the objects no longer change once they are initialised is a fact about the steps
(`KeyInvStep`). `PackedInv` says:
a buffer with the layers `<<c, ...>>` holds the encoding by `c` of a text that has
the remaining layers. A step of the encoder adds one layer to it and a step of the
decoder takes one away by the round-trip theorem of its codec, so the induction over
the number of layers is the induction over the steps.

`NoNullCast` and the refinement rest on `SourceInv`: the pointer
belongs to the kind, a string exists only while it is the open source, a stream with a
bit set has eof or bad, and a stream at eof has nothing left or was closed.

Assumed of the constants: `BuffSize` is a positive multiple of 8, texts are non-empty
sequences of bytes, keys are values of an unsigned short, contents are sequences, read
sizes are positive.

### The program

| theorem | module | statement |
|---|---|---|
| `OptionsCountInAnyOrder` | `ProgramProofs` | `ProgramSpec => []OptionsInAnyOrder` |
| `ChunksAreNotEmpty` | `ProgramProofs` | `ProgramSpec => []NoEmptyChunk` |
| `TextComesBack` | `ProgramProofs` | `ProgramSpec => []DecodesWhatItEncoded` |

For every set of command lines, data of every length and every size of the buffers.
`ProgramInv` has one conjunct for each part of the program. `LineInv` relates what the
options have set to the part of the command line that was read; `StageInv` says which
of it is fixed at each place; `SourceInv` that what was read and what is left make
up the data, and that a read of nothing has set eof or bad; `HistoryInv` what the
process before has written. `ChunkInv` is the heart: the output is the coding of what
was read before the current chunk, and the buffers hold that chunk with one, two or
three procedures applied. It is preserved because chunks are cut after whole segments
(`ENCODE_INPUT` is a multiple of 3, `DECODE_INPUT` a multiple of 4), so that
`EncodingOfPiece` gives the encoding of the whole as the encodings of the pieces one
after the other. For the decoder, the whole is the encoding made before.

### Only model-checked

Liveness (`RunsEndUninterrupted`, `WorkersEndUninterrupted`, `WaitAnswered`, `TestEnds`,
`ProgramEnds`), which needs fairness and ENABLED and is out of the prover's reach. Every
safety property of the passing runs is a theorem.

## 5. Divergences found while modelling

Four have a run (section 3): a second worker starts before the first has left
(`codestream_abstract.cc:188`), the lock order of the header (`:82-84`) is not
followed, a restart can be lost, the program can hang in `waitForStateMove`.
Part of a passing run, as a race that `TestEnds` has to exclude: `programErrorRecover`
can return to PROGRESSING without notifying a worker that waits
(`codestream_abstract.cc:511`). Without a run, read from the code:

* right to left, `_ip >= _ip_start` compares unsigned values and is always true
  (`codestream_abstract.cc:254`): no run ends after the direction was switched, the
  worker steps out of the chain and `vector::at` kills the process;
* a failed uninstall on an idle object is recovered to SUSPEND (502); `restartCode` then
  makes it PROGRESSING without a worker, and every `coding()` is refused;
* a spurious wakeup, or the notification of an older worker, lets `main_coding` write the
  second buffer and read over the first while the worker still codes
  (`codestream.cc:121`): this is what `disturbed` records;
* the destructor (63) does not wait for the worker, which may lock a mutex of the
  destroyed object on its way out;
* `stopCode` tests the state and sets SUSPEND in two critical sections (307-312), so
  SUSPEND can overwrite SHUTDOWN; a worker's end likewise overwrites ERROR (259);
* `getLastResult` reads under `_state_mutex` what the worker writes under
  `_ip_mutex` (79);
* `initCsdsin` changes the kind of source before its init-once test
  (`csdsin.cc:73`), the destructor overwrites the kind before testing it (16);
* `base64Encode` tests the room before it pads (`operation_definition.cc:223`),
  `base64Decode` of an empty text reads index -1 (312), `otmEncode` is right only
  for bytes below 147 (84);
* a chunk that cannot be decoded is written as nothing and the program still
  reports success (`ops_wrapper.cc:128`);
* the lambda of `generateOPSWrapper` captures its parameters by reference and is
  called after they have ended (`ops_wrapper.cc:121`); the comment at 132 tells of a
  SIGSEGV that depends on their order;
* `position` stops at a zero that its tables do not have (`operation_definition.cc:110`),
  the counters of the one-two-map are unsigned shorts (78);
* a key that is no number counts as 0 (`codestream.h:62`), and `EINVALIDKEY` is 0, so
  that `main()` would return success for it (23);
* `-h` alone has fewer than three words and returns `-EOPTION` with the help text
  (`codestream_main.cc:27`); getopt's -1 is compared as a `char` (50).

## 6. Not modelled, and what is next

Not modelled, and why:

* the texts of messages and of the explain functions: no behaviour depends on them;
* failing allocations and null arguments: `new` throws instead of returning null, and
  getopt always gives the argument of `-k`, `-e` and `-d`;
* texts of 2^15 bytes and more, and bytes above 146 in the one-two-map: they read and
  write outside the tables and buffers; the program's chains do not use the
  one-two-map and its buffers have 4096 bytes;
* base64 decoding of an empty text and one-two-map decoding of foreign characters, for
  the same reason; `NoEmptyChunk` shows that the program never does the first;
* what a parameter captured by reference holds after its end: taken as unchanged, which
  is what the program relies on;
* the ifstream that is never deleted: a leak that no later behaviour depends on;
* data races on single words (`getLastResult`, the int of the test program) as torn
  values: a read gives the value before or after a write;
* `ops_test.cc`, which prints the results of single calls, and the build files.

Next:

1. what `ChainRun` implies for its users, proved from `ChainRun` alone: every result that
   can be seen is that of a part of the chain, in order;
2. the condition `NoOverlap` from a discipline of the callers, as a specification of
   callers that begin the next run only when the last worker has left.
