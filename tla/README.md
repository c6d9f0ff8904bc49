# VERTS: specification and proofs

The repository holds two programs of a course on distributed systems: `myfind`, which searches
for several files with one child process each, and `tw-mailer`, a mail server with a command line
client. This directory models them in TLA+, model-checks small instances with TLC, and proves the
safety properties of every component with TLAPS, for all values of the constants.

## The system

| Part | State | Operations | Hard because |
|---|---|---|---|
| Mailbox files (`Mail.cpp`) | one text file per user | `Serialize`, `Deserialize`, `AddMail`, `RemoveMail`, `GetMailByIndex` | the whole file is rewritten in place; crashes and overlapping threads leave any mixture |
| Mail commands (`Command.cpp`) | user of the session, a copy of the mailbox | SEND, LIST, READ, DEL, QUIT | one thread per connection; the mutexes are local variables |
| LOGIN (`Command.cpp`) | `mFailedAttempts`, static `previousLoginName`, file `BLACKLIST`, the clock | `Login`, `CheckBlacklist`, `BlacklistUser`, `ClearBlacklist` | a file removed and written again without a lock, a static string shared by threads, conversions of times |
| Connections (`Server.cpp`, `main.cpp`) | descriptors, `mClientAddress`, detached threads | set up, accept, start a thread, close | descriptors closed twice and given away in between, or never closed, an address overwritten by the next accept, an error that ends the process |
| Framing (`ServerCommunication.cpp`, `socketUtils.hpp`) | two streams of bytes, a buffer on each side | receive, dispatch, `SendData`, `readAll`, `writeAll` | neither side knows how long a message is; a read may end anywhere |
| Client (`client.cpp`) | `loggedIn`, the numbers of the last LIST | one request, one answer | what it believes of the session and of the mailbox is older than what is true |
| `myfind` (`myfind/main.cpp`) | children, a System V queue, messages received | fork, search, send, receive, destroy | the queue is shared by all instances and outlives them |
| LDAP directory | external | accepts or refuses a name and password | no call to it has a timeout; a LOGIN it has answered leaves its connection open |
| CLI11, spdlog, build files, `Login.hpp` (included nowhere) | | | not modelled |

Commands run in the thread of their connection and meet in the files of the mail directory, in
`BLACKLIST` and in `previousLoginName`; nothing else is shared. An exception or a failing `send` in
any thread ends the process for all of them.

What makes the parts correct: a mail whose SEND was answered with OK stays in the mailbox, in order,
until a DEL answered with OK removes it; READ and LIST answer from exactly those mails; a file
that a crash tore can be read at the next start; every command is answered. The last but one the code keeps with an exception: when
the content of a mail begins with a dot, and the file ends right behind this dot, every later
command on the mailbox throws and ends the server. What the client reports is what
the server did, and the next answer belongs to the next request. A thread keeps its descriptors and gives them back, which a LOGIN that
got its search answered does not: it leaves a connection to the directory open. A ban holds for its time and no
longer, and three failures in a row impose it. `myfind` prints one answer for each name, ends, and
leaves no queue.

## Modules

| Module | Contents |
|---|---|
| `MailFormat` | the text format: lines of a mail, one turn of the parsing loop, and `Holds`, the meaning of a file |
| `MailCommands` | what SEND, READ, LIST and DEL do to the mails of a mailbox and answer; extends `MailFormat` |
| `MailStore` | threads, mailbox files, commands, faults; extends `MailCommands` |
| `Mailbox` | the abstract mailbox: every command takes effect at one moment; extends `MailCommands` |
| `MailRefinement` | the mapping under which `MailStore` implements `Mailbox` |
| `Protocol` | a client, its thread and the two streams between them |
| `Server` | the listening server, its threads, their clients and the descriptors of the process |
| `Login` | LOGIN, the list of bans, the counters |
| `MyFind` | instances of `myfind`, their children, the queue in the kernel |
| `MCMailStore`, `MCProtocol`, `MCServer`, `MCLogin`, `MCMyFind` | values of constants for TLC |
| `MailFormatProofs` | lemmas on the format: types, writing (`HoldsAppend`), reading back (`HoldsParse`) |
| `MailStoreProofs` | types, the inductive invariant step by step, what it implies for acknowledged mails and answers |
| `MailFilesProofs` | files that crashes cut off, and a SEND on top of them |
| `MailRefinementProofs` | that `MailStore` implements `Mailbox`, one lemma for each step |
| `ServerProofs` | the inductive invariant of `Server`, one lemma for each action, the theorems |
| `LoginProofs` | types, bans that hold, bans that end, the third failure |
| `MyFindProofs` | types, the queue that is destroyed, the answers printed once |
| `ProtocolProofs` | what holds whatever goes wrong; texts, lines and reads; the conversation of which no read went wrong |

The models meet where one takes for granted what another shows: a command is one step on a sequence of mails in
`Protocol`, which is what `Mailbox` promises of undisturbed mailboxes and `MailRefinementProofs` proves; a command in `Server`
opens files and the directory, or none, and is answered; the answer to LOGIN in `Protocol` may be any that `Login` gives.

Operators whose comment begins with "Broken:" are variants of the definition after them with a
plausible mistake. No specification uses them; put in place of the original, each makes TLC
find the property named in `PROJECT.json` violated, which shows that the property tells the code
from that mistake.

### MailFormat and MailStore

A file is a sequence of lines, a line a model value. A content is the sequence of the lines
between its newlines, so the empty content is `<<Empty>>` and the content without a line, which a
string cannot have, marks the `erase(npos)` that throws. `MailLines` is what the loop of `Serialize` writes;
`FirstMail` and `OtherMails` are one turn of the loop of `Deserialize`.

| Variable | Code |
|---|---|
| `file`, `exists` | the mailbox files |
| `pc`, `req` | where the thread is in its command, and the command |
| `user` | `mSessionData.first` |
| `mails` | `mMails`, while it is read or written |
| `buf` | lines in the buffer of the stream |
| `off` | position of the open file |
| `reply` | the answer to be given to `SendData` |
| `sent`, `acked`, `mixed`, `overlapped`, `torn` | history: number of SENDs, mails according to the answers, commands and mailboxes on which changes met, mailboxes a crash or a failed write interrupted |

A command is `Send`, `List`, `Read` or `Delete` (its guards and its `exists`), then `NoFile` or
`OpenForRead`, `Fetch` for every read of the file, `FetchEnd`, `ParseMail` for every mail, then
`Look` (LIST, READ, a DEL that is refused) or `Change`, `OpenForWrite` (truncates), `PutMail` for every mail,
`Flush` for every write of the stream, with `FlushPart` for one that ends inside a line, `Close`, and `Reply`. `OpenFails`, `WriteFails`, `ReplyFails`,
`ParseThrows`, `Killed` and `Restart` are the faults. The locked mutex of each command is local to the call, excludes nobody and has no
action. The parsing loop reads and parses in turns; here all reads come first, which loses nothing, as
parsing touches the thread's copy only. A read takes any amount of lines in `Chunk` from the
file as it then is, and a write puts any amount in `Chunk` at the position of the descriptor: threads that overlap really overwrite each
other's lines, and a position beyond the end leaves a hole (`Nul`).

The stream writes blocks of bytes, so a write may end inside a line: `FlushPart` puts a part of the first line of the buffer behind
what has been written (`Beginning` says which parts a line has), and the next write overwrites it with the whole line. After a kill or a failed
write the part is the last line of the file. `AtEnd` says where a writer stands: at the end of the file, or in front of such a part.

Abstractions: reads end between lines, so a reader that meets a writer sees the part of a line as a line (it has met
a writer, and nothing is claimed of its answer); LIST gives its
answer in two calls of `SendData` that are one `Reply` (they are two in `Protocol`); an index that is not a number and an empty
receiver, which the client does not let through, do not occur.

### Mailbox and MailRefinement

`Mailbox` has no files. A command is called, takes effect on the sequence of mails at one moment (`TakeEffect`) or fails, and
returns. It also says where nothing is promised: two rewriting commands that meet, a failed write and a
crash in the middle of a rewriting command spoil their mailbox (`spoiled`), and a reader that
meets a rewriting command may be told anything (`Guess`).

`MailRefinement` maps `pc` to the stage of the call (`Stage`), `overlapped` and `torn` to `spoiled`, `mixed` to
`met`, and the mails to `Contents`: the acknowledged ones, after the command that has closed its file and is
not acknowledged yet. So SEND and DEL take effect at `Close`, LIST and READ when their copy has been parsed. `Atomic` is the
specification of `Mailbox` under this mapping, `AtomicAndAnswered` the one with fairness.

### Protocol

| Variable | Code |
|---|---|
| `toServer`, `toClient` | what has been sent and not been read, in each direction |
| `cpc`, `asked`, `response`, `loggedIn` | where the client is, its last request, `messageText` of `readAll`, `loggedIn` of `main` |
| `table` | what the user has on the screen after a LIST |
| `spc`, `buffer`, `message` | where the thread is, the buffer after the last read, the text of the request so far |
| `cell` | the last cell of the buffer, which `recv` never writes and nobody initialises |
| `rest` | the second of the two calls that answer LIST |
| `user`, `box` | the user of the session, the mails of the user |
| `did`, `trouble`, `stale`, `sends`, `others`, `late` | history: commands executed since the last request, how a read went wrong, a deletion since the last LIST, counts for the bounds |

A unit of a stream is a character that matters (newline, dot, the NUL with which `writeAll` ends a request) or a whole word: `Word` are
the names, passwords, words of mails and numbers, `Numeral` the texts of the numbers from 0 on. A mailbox has no more mails than
there are texts to count them with, a bound in the guards of what adds a mail (`Room`). `Read` is one
turn of the loop of `readAll`, which goes on as long as a read fills its buffer; `ReadEnd` is the end of the stream, and `ReadFails` an error,
at which `readAll` drops what it has read; `Receive` one turn of the loop of
`ClientCommunication`, which goes on until the text ends with a newline. `CStrings` is what `append` makes of the
buffer: the text up to the first NUL, or, where none was read, with older cells or memory beyond the buffer behind
it, as the code leaves open what that is. After a good `Receive` one of `Login`, `Send`, `ReadMail`, `Delete`,
`ListCount` with `ListRest`, `Ignore`, or `StoiThrows` follows, and `EndTurn` asks `Command::Quit` about the
buffer. `OtherSends` and `OtherDeletes` are SEND and DEL of the threads of other connections that use the mailbox.

The code has no way to tell that a read went wrong: that a request was cut (`cut`), or got the next one attached (`merged`), that a
full buffer was followed by memory nobody wrote (`junk`) or happened to end with a newline (`newline`), that an answer was cut (`part`)
or filled the buffer of the client (`full`). `trouble` records it, and most properties are claimed until then. The behaviours after it are in
the model, and `LoggedInAgrees` is claimed of them too.

Abstractions: users write to themselves only, and others to them; every line of a mail is short enough to be a unit or two; a mailbox is what `Mailbox`
promises, so a mailbox that overlapping commands spoiled, or one with an empty body in it (`StoredMailReadable`), is not in this module.

### Server

| Variable | Code |
|---|---|
| `main` | the next step of `main` and `Run`; `ended` when the process has |
| `owner` | what every descriptor stands for: nothing, the listening socket, a connection, a file, a connection to the directory |
| `queue` | the connections the kernel has completed and `accept` has not returned |
| `accepted`, `mClientAddress` | the local `communicationSocket` of `Run`; the member all threads read |
| `pc`, `socket`, `held`, `address` | where a thread is, the number it has for its connection and for the file or `ldapHandle` it works on, `sessionAddress` |
| `asks` | the threads whose LOGIN has yet to ask the directory |
| `peer`, `request` | the client: not there, open, gone; what it has sent |
| `victims`, `hurried`, `strangers`, `lost` | history: threads a stray close took a descriptor from, threads that had not copied their address at the next accept, threads that answered another client, threads whose file was not written |
| `found` | history: how many LOGINs of a thread had their search answered |

A thread knows its connection by a number. `Close` is the end of `ClientCommunication`, `CloseAgain` the
second close in `handleClient`; between them the number may be given to a connection, a file or a connection to the directory, and the second close then
takes that away from its thread (`Strays`). All of this happens in the run. The kernel gives away any free number here, not the
lowest, as `accept` takes its number when it is called and may wait for long. `Exit` is the end of the process, by `exit`, by an exception in a
thread, or at the end of `main`.

A LOGIN reads the list of bans (`OpenFile`, `CloseFile`), may find a ban in it, and asks the directory (`AskDirectory`), for which it gets one more
descriptor or fails for want of one. `SearchAnswered` is the return of `CheckLoginData` at its end, where no `ldap_unbind_ext_s` is called: the thread forgets the
number and the descriptor stays open until the process ends. `DirectoryRefuses` are the returns
before, which close it. A LOGIN that was refused may open the list once more, to append a ban. The directory answers when it likes (`FromDirectory`).

Abstractions: a thread that waits in `recv` when its number is closed goes on with what the number stands for next; really it may
first get one more request of its own client. It is a victim then, and nothing is claimed of it. One file at a time is
open for a thread, and a file is written and closed in one step. A LOGIN has one connection to the directory, which TLS, bind and search use; `MaxFound` bounds how many of
them a thread leaves open.

### Login

`Load` opens the list, `FilterLine` takes a line of it and asks the clock whether its ban is over, `ClearBlacklist` removes the file
when the last line has been read; what was kept decides (`ContainsUser`), then or, in the code, when it is back in the file; `OpenList` and
`AppendBan` append one ban, to a file that may have been removed in between (`handle`); `Accepted` and
`Refused` are the answers of the directory; `CountFailure` and `ThirdFailure` the comparison with
`previousLoginName`; `Assign` the assignment. Two threads at the string at once are a data race: a comparison then has
either outcome, and the string any value (`Torn` for none of the names). A time that is
written with `localtime` and read with `mktime` and `tm_isdst = 0` moves by `Shift`: nothing in winter,
an hour in summer. `now` is the clock, in units of any length, which
may go on between any two lines; `at` and `judged` are when a thread opened the list and when it last asked. `BanTime` are the 60 seconds.

### MyFind

Every instance has a parent (`main`, `forked`, `messages`) and a child for every name (`child`, `found`). `live` and
`queue` are the queue the key stands for, `msg_id` the one an instance has got; a queue destroyed by
`Finish` makes `SendFails` and `ReceiveFails` possible. `Results` is what the search may return: the last hit in an order the
directory iterator does not promise. In the code the flag set by `-i` is named `caseSensitive`, but with it the
comparison ignores the case, contrary to the comment at `myfind/main.cpp:52`; `Matches` follows the code.

## Runs

| Run | Shows | Bounds |
|---|---|---|
| `mailstore_faults` | `AckedMailKept`, `TrueAnswers`, `Inductive`, `Atomic`, `TypeOK` with one connection and failing opens, writes, answers, and kills | 3 SENDs, so that a mailbox is rewritten with two mails in it; bodies of two sizes; writes of one line or of all, so that a file is cut in headers, content and between mails, and behind the dot of a word that begins with one; indexes -1, 0, 1 |
| `mailstore_overlap` | `SentMailIsLast`, `OnlyCutDotThrows` with two connections that overlap at every step, and kills | 2 SENDs on one mailbox: enough for two overlapping writers, and for one writer over the remains of a crash; writes of three lines or of all, and cuts behind the dot of the word, so that the cut that throws happens |
| `mailstore_boxes` | `AckedMailKept`, `TrueAnswers`, `Atomic` with two users, two connections, failing opens and writes, and kills | 1 SEND for each mailbox, and cuts between lines |
| `mailstore_live` | `Answered`, `AtomicAndAnswered` with a full disk and failing opens | 1 SEND; cuts inside every line but the dot |
| `mailstore_lost` | violated: `AckedMailAlwaysKept`; two SENDs, both answered OK, one mail left | no faults |
| `mailstore_empty` | violated: `StoredMailReadable`; an empty message ends the server at the next command | one connection |
| `login` | `BanHolds`, `BanEnds`, `ThreeStrikes`, `TypeOK` | 5 LOGINs: three for a ban, one to be blocked and one more that rewrites the list; a ban of 2 units and a clock of 2, so that it ends within the run |
| `login_summer` | violated: `BanEnds`; after a rewriting the ban has moved on by an hour | a unit is a minute |
| `myfind` | `AnswersShared`, `NoQueueLeft`, `Finishes`, `TypeOK` with every fault | two instances, five command lines, a queue of one message so that children block |
| `myfind_shared` | violated: `EveryChildHeard`; an instance prints the other's answer | no faults |
| `protocol` | `Truthful`, `InStep`, `StoredAsTyped`, `LoggedInAgrees`, `NumbersHold`, `NoCrash`, `Returns`, `TypeOK` | reads of 9 units instead of 1023, and four mails chosen for it: one that needs two reads, two whose first read ends with a newline, one whose NUL is left over and whose answer fills the client's buffer; one mail by the user, one change by others, one read cut short in a behaviour, and one request after a read went wrong |
| `server` | `OwnDescriptors`, `NoLeak`, `AddressRight`, `AcceptedInTheEnd`, `Released`, `TypeOK` | two connections, each of which can close twice, be hit and get the number of the other; four descriptors, one less than listening socket, two connections and two files need, so that the limit is met, also by what LOGINs leave open, of which there are two for a thread; one waiting connection |

Deadlock is checked in `server`, where a call may always fail and the server be started again. It is not in the other runs: with
its bounds used up the model of the mail commands or of LOGIN may be idle for ever, and `myfind`
and the client end. Symmetry of the connections is used in runs without liveness only: `Atomic`, which `mailstore_boxes` combines with it, is
a property of the initial state and of steps.

`AckedMailKept`, `TrueAnswers` and `Atomic` are claimed of mailboxes on which no two rewriting commands met and no crash or
failed write interrupted one (`overlapped`, `torn`); `mailstore_lost` shows that the first condition is needed. Readers may
overlap with anything: a reader that met a writer is only excluded from `TrueAnswers`, and does no harm. In the same way `OwnDescriptors` excludes the `victims` and
`AddressRight` the `hurried`: that there are any is the fault of the code, that nobody else suffers is what is shown. `NoLeak` allows what the code leaves open,
one connection to the directory for each LOGIN that had its search answered, and nothing else.

`Returns` excludes four of the six ways a read goes wrong. Each of them really leaves client and server waiting for each other, as
TLC finds when it is not excluded; a read that took a newline for the end (`newline`) or a part of an answer for the whole (`part`) does not.

Fairness: `FairSpec` of `MailStore` gives every thread weak fairness of its steps: the scheduler runs every
thread, and reads and writes of local files do not block. No write has to end inside a line (`FlushPart` is not fair). Nothing is assumed of clients (what arrives is not
fair). `FairSpec` of `MyFind` gives it to each parent and to the children of each instance; blocked senders and receivers are woken by the kernel. `FairSpec` of
`Protocol` gives it to the client and to all that the thread does without the directory (`OwnStep`), which go on whenever there is something to read; no user has to type anything. `FairSpec` of `Server` gives it to the main
thread and to what every other one does by itself, but not to the failures (`Failure`), not to clients and not to the directory (`FromDirectory`).
The answer of the directory may never come, as no call to it has a timeout: `Login` has no temporal property, `Returns` excepts the time
in which the server executes a LOGIN (`AtDirectory`), and `Released` the threads that wait for the directory (`LeftBehind`); both claim again
what follows when an answer has come.

## Proofs

For all values of the constants that satisfy `MarkAssumption` and `StoreAssumption`:

* `TypeInvariant`: `Spec => []TypeOK`.
* `ServerKeepsPromise`: `Spec => Atomic`, if `<<>> \notin Body`: the threads implement the mailboxes of `Mailbox`.
* `OnlyACutDotThrows`, `SentMailIsInFile`: `OnlyCutDotThrows` and `SentMailIsLast` are invariants, if `<<>> \notin Body`, and
  the second if also `"disk" \notin Fault`: after a failed write the server still answers OK.
* `InductiveInvariant`, `AckedMailIsKept`, `AnswersAreTrue`: `Inductive`, `AckedMailKept` and `TrueAnswers` are
  invariants of `Spec` under any faults, if `<<>> \notin Body`. The condition is a real limit of the code: an empty
  body is stored so that it cannot be read back.

`AckedMailKept` is not inductive: it says nothing while a thread is rewriting the file. `Inductive` adds what
each thread holds at each step: `Tidy` (buffers, position and answer are empty where they should be), `Alone` (a command that met no rewriting
one is the only one that can change its mailbox), `Settled` (the file of a mailbox nobody is
rewriting holds the acknowledged mails) and `Progress`: while reading, the buffer is a prefix of the file; while
parsing, the copy is a prefix of the acknowledged mails and the buffer holds the others; while writing, file and
buffer together hold a prefix of the new mailbox and `mails` is the rest. `HoldsParse` and `HoldsAppend` of
`MailFormatProofs` carry the two loops. `LocalStep` and `FileStep` reduce a step of a thread to what that
thread holds; then there is one lemma for each action.

The refinement starts from `Inductive` and needs one invariant more, `Decided`: a command that was let through to change its
mailbox would be let through at any moment until it does. `Contents`
of a mailbox nobody spoiled moves only when a command closes its file (`TakeEffect`); every other step of a thread is a call, a failure, a return or a
step `Mailbox` does not see.

A file that was cut off does not hold the acknowledged mails, so `Inductive` says nothing of it. `Files` is about what is in the files
however it got there: each holds some mails and perhaps the beginning of one more (`Cut`), the last line of which may be a part of a line, while a thread that writes alone
holds the rest (`Copy`). Parsing takes whole mails off the front and leaves a beginning (`FrontParse`, `CutParse`); a beginning makes the `erase` throw only if it is
three headers and a dot (`ThrowsAtFour`), and this dot is a part of a line, as no line of a body is just a dot.

* `ServerTypes`, `DescriptorsAreOwn`, `OnlyLoginsLeak`, `AddressesAreRight`: `TypeOK`, `OwnDescriptors`, `NoLeak` and
  `AddressRight` are invariants of `Server`, for any connections, any number of descriptors and under any of its faults, from
  `ServerAssumption` alone.

None of the four is inductive. That the second close of one thread harms only the threads in `victims` needs to be known of
a connection before it has a thread, when it has a descriptor already (`Intact`), and that no two descriptors stand for it
(`Owned`), which needs that a connection waits, is accepted or has a thread and is never in two of these states (`Waiting`,
`Absent`, `Handed`). That the listening socket survives every close needs that no thread ever takes its number for its own
(`Listens`), which holds as nothing else is open when it is created (`Down`). That a thread has left no more connections to the directory
open than it had answers is counted over the descriptors (`Counted`): a close takes one away at most, an answer adds the one that was held. `IInv` is their conjunction. `ThreadFrame` says what a
step of a thread leaves alone, `MoveKeeps` settles the steps that open and close nothing, `Closed` what a close
makes of the descriptors, `OpenKeeps` and `CloseHeldKeeps` are a file and a connection to the directory alike.

* `LoginProofs`, from `LoginAssumption`: `TypeCorrect`; `BansHold` and `ThreeStrikesOnly`: `BanHolds` and `ThreeStrikes` are
  invariants; `BansEnd`: `BanEnds` is one if `Shift = 0`, which is winter. `login_summer` shows that it is none in summer. `BansHold` needs no such
  condition, as a time that is moved on makes a ban longer.

`BanEnds` holds although threads read, remove and append to one file without a lock: whatever is in the file, in the lines a thread has read or
in those it is about to append was imposed at the time it says (`Imposed`), the kept bans were in force when the list was opened (`Reading`),
and none has decided yet before the list is read (`Undecided`). `BanHolds` is the opposite and needs that LOGINs do not overlap: then one thread at
most is busy (`Alone`), every ban in force is in the file, in the lines still to be read or in those to be appended (`Written`, `Gathered`), and a thread
that got past the list was not covered by one (`Cleared`). `ThreeStrikes` needs that the counter of the code agrees with the
failures in a row at each step of a LOGIN (`Counting`) while there is one connection.

* `MyFindProofs`, from `MyFindAssumption`, which asks that there are finitely many instances: `TypeCorrect`; `QueueIsGone` and `EveryAnswerPrintedOnce`:
  `NoQueueLeft` and `AnswersShared` are invariants.

A queue that is alive belongs to an instance that runs or was killed (`Owned`). For the answers, `Stages` says what each state of a parent
means for its children, `Traced` that what was printed or is in the queue was sent by a child, and `Once` that
no child's answer is there twice. An instance receives as many answers as it has children, but not always theirs; that
all of them together are printed follows by counting the children of all instances against the answers printed.

* `ProtocolProofs`, from `ProtocolAssumption`, for any words, mails, sizes of the buffer and faults: `TypeCorrect`, `ClientAndServerAgree`,
  `AnswersAreTrue`, `NothingIsLeftOver`, `MailsArriveAsTyped`, `ClientDoesNotCrash` and `NumbersKeep`: `TypeOK`, `LoggedInAgrees`, `Truthful`,
  `InStep`, `StoredAsTyped`, `NoCrash` and `NumbersHold` are invariants.

`LoggedInAgrees` is claimed whatever goes wrong, so its invariant `Untold` cannot use that the two are in step: until the session has its user, no
answer with OK in it has been sent, however the answers are cut and joined. The others follow from `Orderly`, which
says what a conversation looks like of which no read went wrong: nothing is on its way (`Idle`), a request is on its way, the part of it that has been read being in `message`
(`Underway`), or the command has been executed once and what the client has got, what is on its way and the second part of a LIST are together
its whole answer (`Done`). A request of any length may be read in any number of parts, so the proof rests on
lemmas about texts: where the lines of one are (`Breaks`, `LineOf`), that a request is parsed as what was asked (`RequestText`, `LetterArrives`), what the parts of a
read may be (`ReceivePart`, and `ReceiveNul` for a NUL that did not fit). `NumbersKeep` adds `Listed`: the answer to LIST
on its way has the numbers of the mailbox already.

Assumptions the provers get are those of the modules and no more. Where the code limits a theorem, its condition is written in
the theorem and a run shows that it is needed (`mailstore_empty`, `login_summer`).

Only model-checked is what is to happen at last, under fairness: `Answered`, `AtomicAndAnswered`, `Finishes`, `Returns`, `AcceptedInTheEnd` and `Released`.
The prover has no rules for fairness and ENABLED. What the folds and recursive functions of the library yield is used at
single steps, by a least counterexample where a whole sequence matters.

## Not modelled

* CLI11 and spdlog (`tw-mailer/include/libraries`), which are third-party code and more than nineteen twentieths of the lines of the
  repository. The program uses them to read options and to write debug messages; neither touches the state of
  a mailbox, a session or a connection. The share of all lines that the modules stand for is therefore
  small; of the lines of the two programs themselves it is most.
* Terminal input of the client: prompts, echo of passwords, the checks of what is typed. The requests the model
  makes are those the checks let through.
* `Login.hpp` declares a class nothing includes; `isOpen`, `GenerateUniqueFilename` and `mPid` are used nowhere.
* The LDAP directory, the kernel and the file system, except for what the code can see of them. Which names and passwords the directory
  accepts is left open in `Login`; the descriptors of its connections and its silence are in `Server`.
* Requests a different client could send: all requests are those of `client.cpp`.

## Plan

1. Every safety property the runs check is a theorem. Left are action properties: what a single step may do to the list of
   bans, to a mailbox and to the descriptors.
2. A bound on what may be lost when LOGINs overlap: which bans, not only that there are some.
