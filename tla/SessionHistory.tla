--------------------------- MODULE SessionHistory ---------------------------
(***************************************************************************)
(* The model's context, agent.history, across the sessions of one project: *)
(* the turns and "!" commands that extend it, the cache of sanitized       *)
(* histories, the saves that hand it to the session store, and /new,       *)
(* /resume, /rewind, /fork and a restart.                                  *)
(*                                                                         *)
(* Python lists are shared, not copied: agent.history, the agent_history   *)
(* of a session in memory, an entry of the cache and the data of a save    *)
(* under way may be the same list, and some code changes a list in place.  *)
(* So lists have an identity here: "heap" gives the contents of each one.  *)
(* A message stands for a whole prompt with its answer, a "!" command with *)
(* its output, or an interruption note.  Two messages may have the same    *)
(* text: the same prompt sent again and stopped, or two notes.             *)
(***************************************************************************)
EXTENDS Integers, Sequences, SequencesExt, FiniteSets

CONSTANTS
    Lists,         \* identities of Python lists, enough of them
    None,
    Text(_),       \* what a message says
    MaxMessages,   \* bound: messages made
    MaxSessions,   \* bound: sessions made
    MaxSaves,      \* bound: saves begun
    MaxCommands,   \* bound: /new, /resume, /rewind, /fork and restarts
    CacheSize      \* _SANITIZE_CACHE_MAX

Sessions == 1..MaxSessions
Everything == MaxMessages + 1   \* a fork of the current state: no index

ASSUME ListsAssumption ==
    /\ IsFiniteSet(Lists)
    /\ Cardinality(Lists) >= MaxSessions + CacheSize + 4
    /\ None \notin Lists \cup Nat

ASSUME BoundsAssumption ==
    /\ MaxMessages \in Nat
    /\ MaxSessions \in Nat \ {0}
    /\ CacheSize \in Nat \ {0}
    /\ MaxSaves \in Nat
    /\ MaxCommands \in Nat

Message == [by : Sessions, at : 1..MaxMessages, kind : {"user", "shell", "note"}]

VARIABLES
    heap,        \* the contents of each list
    history,     \* agent.history
    turn,        \* "messages" of the running turn, <<>> when none runs
    cache,       \* _SANITIZE_CACHE: entries, the most recently used last
    stored,      \* agent_history of each session in memory
    transcript,  \* the visible user messages of each session in memory
    disk,        \* the session file: its messages and its history
    current,     \* app.current_session_id
    opened,      \* sessions made so far
    save,        \* the data of a save whose thread has not written it yet
    shell,       \* the message of a running "!" command
    pending,     \* app.pending_fork: how many messages the fork keeps
    made,        \* messages made so far
    saves,       \* saves begun so far
    commands,    \* commands and restarts so far
    damaged,     \* history: sessions that one of the known races has touched
    inherited    \* history: what had been said in its ancestors when a session was forked

counts == <<saves, commands>>
forkVars == <<pending, inherited>>
vars == <<heap, history, turn, cache, stored, transcript, disk, current, opened,
          save, shell, made, counts, damaged, forkVars>>

\* A process that has just started: its own list and that of its new session.
FirstList == CHOOSE l \in Lists : TRUE
SecondList == CHOOSE l \in Lists : l # FirstList

Init ==
    /\ heap = [l \in Lists |-> <<>>]
    /\ history = FirstList
    /\ turn = <<>>
    /\ cache = <<>>
    /\ stored = [s \in Sessions |-> IF s = 1 THEN SecondList ELSE None]
    /\ transcript = [s \in Sessions |-> <<>>]
    /\ disk = [s \in Sessions |-> None]
    /\ current = 1
    /\ opened = 1
    /\ save = None
    /\ shell = None
    /\ made = 0
    /\ saves = 0
    /\ commands = 0
    /\ damaged = {}
    /\ pending = None
    /\ inherited = [s \in Sessions |-> {}]

-----------------------------------------------------------------------------
(* Lists.                                                                  *)

Used ==
    {history} \cup (Range(stored) \ {None}) \cup {cache[i].list : i \in DOMAIN cache}
    \cup (IF save = None THEN {} ELSE {save.history})

Fresh(others) == CHOOSE l \in Lists : l \notin Used \cup others

\* The contents after a step; a list nobody refers to any more is collected.
Become(contents) ==
    heap' = [l \in Lists |-> IF l \in Used' THEN contents[l] ELSE <<>>]

\* Said in s, or in its ancestors before it was forked.
By(s, messages) == \A i \in DOMAIN messages : messages[i].by = s \/ messages[i] \in inherited[s]

\* The sessions for which the store, a save under way or the cache keeps a list; the
\* cache keeps it for those that have the messages it is found by, which are the
\* session that had it and its forks.
Keepers(list) ==
    {s \in Sessions :
        \/ stored[s] = list
        \/ save # None /\ save.id = s /\ save.history = list
        \/ \E i \in DOMAIN cache : cache[i].list = list /\ By(s, cache[i].key)}

Says(s, kind) == [by |-> s, at |-> made + 1, kind |-> kind]

Texts(contents) == [i \in DOMAIN contents |-> Text(contents[i])]

Visible(m) == m.kind # "note"
VisibleIn(contents) ==
    FlattenSeq([i \in DOMAIN contents |-> IF Visible(contents[i]) THEN <<contents[i]>> ELSE <<>>])

\* The position of the n-th visible message, from 0; 0 when there is none.
Position(contents, n) ==
    LET at(i) == Visible(contents[i]) /\ Len(VisibleIn(SubSeq(contents, 1, i))) = n + 1
        found == {i \in DOMAIN contents : at(i)}
    IN  IF found = {} THEN 0 ELSE CHOOSE i \in found : TRUE

\* sanitize_history_cached for a list with these contents: the list it
\* returns, what is in it, and the cache it leaves.  The cache knows texts only;
\* "key" holds the messages whose texts they were.  What sanitizing itself
\* changes is the subject of WireHistory.
Entry(contents) == SelectInSeq(cache, LAMBDA e : Texts(e.key) = Texts(contents))

CachedList(contents) ==
    IF Entry(contents) = 0 THEN Fresh({}) ELSE cache[Entry(contents)].list

CachedContents(contents) ==
    IF Entry(contents) = 0 THEN contents ELSE heap[CachedList(contents)]

OtherEntries(contents) ==
    IF Entry(contents) = 0 THEN cache ELSE RemoveAt(cache, Entry(contents))

\* The entry becomes the last used one; the oldest goes when there is no room.
CacheAfter(contents) ==
    LET rest == OtherEntries(contents)
    IN  Append(IF Len(rest) = CacheSize THEN Tail(rest) ELSE rest,
               IF Entry(contents) = 0 THEN [key |-> contents, list |-> CachedList(contents)]
                                      ELSE cache[Entry(contents)])

\* The entry was made for other messages, with the same texts.
Mistaken(contents) == Entry(contents) # 0 /\ cache[Entry(contents)].key # contents

\* /fork cuts agent.history before there is a fork, and nothing puts back what
\* it cut: until the fork is made, the parent goes on with less than it shows.
CutShort == IF pending \in {None, Everything} THEN {} ELSE {current}

-----------------------------------------------------------------------------
(* Turns and "!" commands.                                                 *)

\* _apply_pending_fork_or_readonly, the first thing a prompt or a "!" command
\* does: a pending fork becomes a session, with copies of what the store has of
\* the parent up to the turn chosen, is written to its file and is the current
\* one.  agent.history is not touched.
KeptTranscript ==
    LET shown == transcript[current]
    IN  IF pending \in 0..Len(shown) THEN SubSeq(shown, 1, pending) ELSE shown

KeptHistory ==
    LET whole == heap[stored[current]]
        cut == Position(whole, pending)
    IN  CASE pending = 0 -> <<>>
          [] pending # 0 /\ cut = 0 -> whole
          [] OTHER -> SubSeq(whole, 1, cut - 1)

Forks(list) ==
    /\ pending' = None
    /\ IF pending = None
       THEN UNCHANGED <<stored, disk, current, opened, inherited>>
       ELSE /\ opened' = opened + 1
            /\ current' = opened + 1
            /\ stored' = [stored EXCEPT ![current'] = list]
            /\ disk' = [disk EXCEPT ![current'] = [messages |-> KeptTranscript, history |-> KeptHistory]]
            /\ inherited' = [inherited EXCEPT ![current'] =
                  inherited[current] \cup {m \in Message : m.by = current /\ m.at <= made}]

\* A fork of a damaged session is damaged.
Damaged == IF pending # None /\ current \in damaged THEN damaged \cup {opened + 1} ELSE damaged

\* What the fork's list in the store begins with.
Forked(contents, list) == IF pending = None THEN contents ELSE [contents EXCEPT ![list] = KeptHistory]

\* The session whose context the cache took for another one.
Taken(contents, s) == IF Mistaken(contents) THEN {s} ELSE {}

\* The context sent is the sanitized history and the prompt, in a new list
\* that is agent.history from here on.
TurnStarts ==
    /\ turn = <<>>
    /\ made < MaxMessages
    /\ LET before == heap[history]
           list == CachedList(before)
           new == Fresh({list})
           fork == Fresh({list, new})
       IN  /\ Forks(fork)
           /\ cache' = CacheAfter(before)
           /\ turn' = Append(CachedContents(before), Says(current', "user"))
           /\ history' = new
           /\ damaged' = Damaged \cup Taken(before, current')
           /\ UNCHANGED save
           /\ Become(Forked([heap EXCEPT ![list] = CachedContents(before), ![new] = turn'], fork))
    /\ transcript' = [transcript EXCEPT ![current'] = Append(KeptTranscript, Says(current', "user"))]
    /\ made' = made + 1
    /\ UNCHANGED <<counts, shell>>

\* Mutant: the turn's messages are appended to the list they began with.
TurnEnds_appends ==
    /\ turn # <<>>
    /\ turn' = <<>>
    /\ UNCHANGED <<history, cache, stored, transcript, disk, current, opened, save, shell,
                   counts, made, damaged, forkVars>>
    /\ Become([heap EXCEPT ![history] = @ \o turn])

\* agent.history becomes the list the cache keeps for the turn's messages;
\* what was appended to the old list meanwhile is not in it.
TurnEnds ==
    /\ turn # <<>>
    /\ cache' = CacheAfter(turn)
    /\ history' = CachedList(turn)
    /\ turn' = <<>>
    /\ damaged' = damaged \cup Taken(turn, current)
    /\ UNCHANGED <<stored, transcript, disk, current, opened, save, shell, counts, made, forkVars>>
    /\ Become([heap EXCEPT ![history'] = CachedContents(turn)])

\* Esc: the finally block of the stream has run, and the engine appends a
\* note, in place, to the list the cache keeps, which may be another session's.
TurnStops ==
    /\ turn # <<>>
    /\ made < MaxMessages
    /\ cache' = CacheAfter(turn)
    /\ history' = CachedList(turn)
    /\ turn' = <<>>
    /\ made' = made + 1
    /\ damaged' = damaged \cup Taken(turn, current)
                           \cup Keepers(history')
    /\ UNCHANGED <<stored, transcript, disk, current, opened, save, counts, shell, forkVars>>
    /\ Become([heap EXCEPT ![history'] = Append(CachedContents(turn), Says(current, "note"))])

\* exec_shell_command looks the session up first; a turn may start meanwhile.
ShellStarts ==
    /\ turn = <<>>
    /\ shell = None
    /\ made < MaxMessages
    /\ Forks(Fresh({}))
    /\ shell' = Says(current', "shell")
    /\ transcript' = [transcript EXCEPT ![current'] = Append(KeptTranscript, shell')]
    /\ made' = made + 1
    /\ damaged' = Damaged
    /\ UNCHANGED <<history, turn, cache, save, counts>>
    /\ Become(Forked(heap, Fresh({})))

\* The output is appended, in place, to whatever agent.history is by now, which
\* a parent may still have in the store.
ShellEnds ==
    /\ shell # None
    /\ shell' = None
    /\ damaged' = damaged \cup (Keepers(history) \ {current})
                           \cup (IF shell \in Range(transcript[current]) THEN {} ELSE {current})
    /\ UNCHANGED <<history, turn, cache, stored, transcript, disk, current, opened, save,
                   counts, made, forkVars>>
    /\ Become([heap EXCEPT ![history] = Append(@, shell)])

-----------------------------------------------------------------------------
(* Saves.                                                                  *)

\* collect_session_data, on the loop: the messages are copied, the history
\* is not.  A session nobody has said anything in is not saved.
SaveCollects ==
    /\ save = None
    /\ transcript[current] # <<>>
    /\ saves < MaxSaves
    /\ saves' = saves + 1
    /\ save' = [id |-> current, messages |-> transcript[current], history |-> history]
    /\ damaged' = damaged \cup CutShort
    /\ UNCHANGED <<heap, history, turn, cache, stored, transcript, disk, current, opened,
                   shell, commands, made, forkVars>>

\* A list that compares equal, with the same texts, does not replace the stored one.
Replacing(list) ==
    IF Texts(heap[list]) = Texts(heap[stored[current]]) THEN stored[current] ELSE list

\* write_session_data: the file is written when some attribute compares
\* different; the counters of the agent, left out here, may.
Writes(messages, list) ==
    \/ disk' = [disk EXCEPT ![current] =
                  [messages |-> messages, history |-> heap[Replacing(list)]]]
    \/ /\ messages = transcript[current]
       /\ Replacing(list) = stored[current]
       /\ UNCHANGED disk

\* The thread of the save: it writes to the session that is current by now,
\* and what was said there since the messages were copied is lost.
SaveWrites ==
    /\ save # None
    /\ Writes(save.messages, save.history)
    /\ transcript' = [transcript EXCEPT ![current] = save.messages]
    /\ stored' = [stored EXCEPT ![current] = Replacing(save.history)]
    /\ save' = None
    /\ damaged' = IF save.id = current /\ save.messages = transcript[current]
                  THEN damaged
                  ELSE damaged \cup {save.id, current}
    /\ UNCHANGED <<history, turn, cache, current, opened, shell, counts, made, forkVars>>
    /\ Become(heap)

-----------------------------------------------------------------------------
(* Sessions.                                                               *)

\* reset_app_state: a fork that was pending is forgotten.
Command ==
    /\ turn = <<>>
    /\ commands < MaxCommands
    /\ commands' = commands + 1
    /\ pending' = None
    /\ UNCHANGED inherited

\* Who will share the list of agent.history once a new session goes on with it.
Sharers == IF Keepers(history) = {} THEN {} ELSE Keepers(history) \cup {opened + 1}

\* Mutant: the history is not cleared.
NewSession_keepsHistory ==
    /\ Command
    /\ opened < MaxSessions
    /\ opened' = opened + 1
    /\ current' = opened + 1
    /\ stored' = [stored EXCEPT ![opened + 1] = Fresh({})]
    /\ damaged' = damaged \cup Sharers
    /\ UNCHANGED <<saves, history, turn, cache, transcript, disk, save, shell, made>>
    /\ Become([heap EXCEPT ![stored'[opened + 1]] = <<>>])

\* /new: clear_history empties the list in place, whoever else refers to it.
NewSession ==
    /\ Command
    /\ opened < MaxSessions
    /\ opened' = opened + 1
    /\ current' = opened + 1
    /\ stored' = [stored EXCEPT ![opened + 1] = Fresh({})]
    /\ damaged' = damaged \cup Sharers
    /\ UNCHANGED <<saves, history, turn, cache, transcript, disk, save, shell, made>>
    /\ Become([heap EXCEPT ![history] = <<>>, ![stored'[opened + 1]] = <<>>])

\* A session resumed from memory while its save is under way has not yet got
\* what the save holds.
Unwritten(s) == IF save # None /\ save.id = s THEN {s} ELSE {}

\* Mutant: the history lines of the file are not loaded.
Resume_skipsHistory(s) ==
    /\ Command
    /\ current' = s
    /\ damaged' = damaged \cup Unwritten(s)
    /\ UNCHANGED <<saves, turn, cache, disk, opened, save, shell, made>>
    /\ \/ /\ stored[s] # None
          /\ transcript[s] # <<>> \/ heap[stored[s]] # <<>>
          /\ history' = stored[s]
          /\ UNCHANGED <<stored, transcript>>
          /\ Become(heap)
       \/ /\ stored[s] = None
          /\ disk[s] # None
          /\ history' = Fresh({})
          /\ stored' = [stored EXCEPT ![s] = history']
          /\ transcript' = [transcript EXCEPT ![s] = disk[s].messages]
          /\ Become([heap EXCEPT ![history'] = <<>>])

\* /resume: the session in memory, or else the one in its file, becomes the
\* current one, and its list, not a copy of it, agent.history.
Resume(s) ==
    /\ Command
    /\ current' = s
    /\ damaged' = damaged \cup Unwritten(s)
    /\ UNCHANGED <<saves, turn, cache, disk, opened, save, shell, made>>
    /\ \/ /\ stored[s] # None
          /\ transcript[s] # <<>> \/ heap[stored[s]] # <<>>
          /\ history' = stored[s]
          /\ UNCHANGED <<stored, transcript>>
          /\ Become(heap)
       \/ /\ stored[s] = None
          /\ disk[s] # None
          /\ history' = Fresh({})
          /\ stored' = [stored EXCEPT ![s] = history']
          /\ transcript' = [transcript EXCEPT ![s] = disk[s].messages]
          /\ Become([heap EXCEPT ![history'] = disk[s].history])

\* The code takes the visible messages of the history for the last ones of the
\* view.  They are not while a "!" command runs, and never again when its output
\* was lost: the cut then takes other messages than the view shows.  A list kept for
\* having the same texts counts as not aligned too.
Misaligned ==
    IF IsSuffix(VisibleIn(heap[history]), transcript[current]) THEN {} ELSE {current}

\* truncate_agent_history, for the k-th message of the view, from 0.  A
\* message before the last ones, or the first of them, empties the history, in
\* place.  Notes do not survive the cut.
Truncates(k) ==
    LET whole == heap[history]
        tailStart == Len(transcript[current]) - Len(VisibleIn(whole))
        kept == VisibleIn(SubSeq(whole, 1, Position(whole, k - tailStart) - 1))
    IN  \/ /\ k = 0 \/ k <= tailStart
           /\ damaged' = damaged \cup CutShort \cup Misaligned \cup Keepers(history)
           /\ UNCHANGED history
           /\ Become([heap EXCEPT ![history] = <<>>])
        \/ /\ k # 0 /\ k > tailStart
           /\ history' = Fresh({})
           /\ damaged' = damaged \cup CutShort \cup Misaligned
           /\ Become([heap EXCEPT ![history'] = kept])

\* /rewind to the k-th message.
Rewind(k) ==
    /\ Command
    /\ k < Len(transcript[current])
    /\ transcript' = [transcript EXCEPT ![current] = SubSeq(@, 1, k)]
    /\ UNCHANGED <<saves, turn, cache, stored, disk, current, opened, save, shell, made>>
    /\ Truncates(k)

\* /fork from the k-th message, or from where the session is: the session is
\* made with the next input, but agent.history is cut at once.
ChooseFork(k) ==
    /\ turn = <<>>
    /\ commands < MaxCommands /\ commands' = commands + 1
    /\ opened < MaxSessions
    /\ transcript[current] # <<>>
    /\ k < Len(transcript[current]) \/ k = Everything
    /\ pending' = k
    /\ UNCHANGED <<saves, turn, cache, stored, transcript, disk, current, opened, save, shell,
                   made, inherited>>
    /\ IF k = Everything
       THEN UNCHANGED <<heap, history>> /\ damaged' = damaged \cup CutShort
       ELSE Truncates(k)

\* The process ends and another one begins, with a session of its own.
Restarts ==
    /\ commands < MaxCommands /\ commands' = commands + 1
    /\ opened < MaxSessions
    /\ opened' = opened + 1
    /\ current' = opened + 1
    /\ heap' = [l \in Lists |-> <<>>]
    /\ history' = FirstList
    /\ turn' = <<>>
    /\ cache' = <<>>
    /\ stored' = [s \in Sessions |-> IF s = opened + 1 THEN SecondList ELSE None]
    /\ transcript' = [s \in Sessions |-> <<>>]
    /\ save' = None
    /\ shell' = None
    /\ pending' = None
    /\ UNCHANGED <<saves, made, inherited>>

Crash == Restarts /\ UNCHANGED <<disk, damaged>>

\* on_unmount saves first, on the loop.
Quit ==
    /\ save = None
    /\ IF transcript[current] = <<>>
       THEN UNCHANGED disk
       ELSE Writes(transcript[current], history)
    /\ damaged' = damaged \cup CutShort
    /\ Restarts

-----------------------------------------------------------------------------
Next ==
    \/ TurnStarts \/ TurnEnds \/ TurnStops
    \/ ShellStarts \/ ShellEnds
    \/ SaveCollects \/ SaveWrites
    \/ NewSession
    \/ \E s \in Sessions : Resume(s)
    \/ \E k \in 0..Everything : Rewind(k) \/ ChooseFork(k)
    \/ Crash \/ Quit

Spec == Init /\ [][Next]_vars

-----------------------------------------------------------------------------
(* Properties.                                                             *)

\* No session sees what was said in another one: not in the context, not in
\* the store, not in the file, however lists are shared between them and
\* whenever saves and commands started in one session end in another.  A fork
\* has what its ancestors had said.  The excuses are named by "damaged": /new
\* emptied a list the store still refers to, a save or a "!" command ended after
\* the session was left, a "!" command was appended to a list that another
\* session has in the store or can find in the cache, or the cache took a context
\* for another one with the same texts.
Isolated ==
    \A s \in Sessions \ damaged :
        /\ By(s, transcript[s])
        /\ s = current => By(s, heap[history]) /\ By(s, turn)
        /\ stored[s] # None => By(s, heap[stored[s]])
        /\ disk[s] # None => By(s, disk[s].history) /\ By(s, disk[s].messages)

\* The model is told nothing twice, and turns in the order they took place (a
\* "!" command takes its place when it ends): turns that replace the history,
\* commands that append to it, rewinds that cut it and cache hits that bring
\* an old list back never repeat or reorder a message.
Chronological(messages) ==
    \A i, j \in DOMAIN messages :
        i < j => /\ messages[i] # messages[j]
                 /\ messages[j].kind # "shell" => messages[i].at < messages[j].at

InOrder == Chronological(turn) /\ \A l \in Used : Chronological(heap[l])

\* A resumed session has at least the context its file holds, whether it
\* comes from memory or from the file; and a prompt that a save takes from the
\* context in the file is no longer among the messages of the session either: a
\* rewind took both.  (The output of a "!" command that ends during a turn is
\* lost to the context.)  "damaged" excuses, besides the races above, a session
\* resumed before its save was written, and one in which a fork was chosen but
\* not made: its context was cut, its messages were not.
Restored(s) == disk[s] = None \/ IsPrefix(disk[s].history, heap'[history'])

Remembered(s) ==
    disk[s] # None =>
        \A m \in Range(disk[s].history) \cap Range(disk'[s].messages) :
            m.kind = "user" => m \in Range(disk'[s].history)

ContextKept ==
    [][/\ \A s \in Sessions \ damaged : Resume(s) => Restored(s)
       /\ \A s \in Sessions \ damaged' : Remembered(s)]_vars

=============================================================================
