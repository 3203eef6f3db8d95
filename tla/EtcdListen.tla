----------------------------- MODULE EtcdListen -----------------------------
(***************************************************************************)
(* util/etcd_listen: files (groups) list services by watch key and version *)
(* range; a goroutine per watch key reads the key's nodes from etcd, then  *)
(* follows their changes, and after every change the files that mention    *)
(* the key are written again through Export.                               *)
(*                                                                         *)
(* The package's state is spread over maps with a lock each, and           *)
(* tiggerChangesWatchKey reads most of them without a lock, so every       *)
(* locked section is a step of its own.  One caller runs AddGroupWatchs,   *)
(* EmptyGroupWatchs, ReloadEtcdWatch and ReloadExport, in the order its    *)
(* script gives; the watch goroutines run beside it.  etcd is external.    *)
(***************************************************************************)
EXTENDS Integers, Sequences, FiniteSets, FiniteSetsExt

CONSTANTS Key,        \* watch keys
          Node,       \* the nodes (etcd keys) below a watch key
          Ver,        \* node values that parse, told apart by their version
          Bad,        \* a node value that is not valid JSON
          None,       \* no node, no file, no goroutine
          File,       \* output aliases
          Conf,       \* Conf[f]: the rows of file f
          Cases,      \* what etcd holds at first and what the caller does, a
                      \* sequence of <<call, file>>
          Faults,     \* BOOLEAN: Get and the watch may fail
          Changes,    \* the changes in etcd: key, node and new value or None
          MaxEvents,  \* bound: changes in etcd
          Watchers    \* bound: the watch goroutines ever started

Row == [sname : STRING, name : Key, range : SUBSET Ver]

Value == Ver \cup {Bad, None}
Call == ({"add", "empty"} \X File) \cup ({"watch", "export"} \X {None})

ASSUME ConfAssumption ==
    /\ \A f \in File : Conf[f] \subseteq Row
    /\ Changes \subseteq Key \X Node \X Value
    /\ \A c \in Cases : c.store \in [Key -> [Node -> Value]] /\ c.script \in Seq(Call)
    /\ Faults \in BOOLEAN /\ MaxEvents \in Nat /\ Watchers \subseteq Nat \ {0}
    /\ None \notin Watchers

VARIABLES store,    \* etcd: store[w][n], the node's value
          hist,     \* etcd: the changes in order, one revision each
          hasKeys,  \* outputFileHasKeys: the files added
          names,    \* namesWithOutputFile: names[w], the files that mention w
          fileMap,  \* outputFileMap
          settings, \* etcdSettings
          handler,  \* closeHandler: handler[w], the goroutine watching w
          out,      \* out[f]: what Export last wrote to f
          gor,      \* gor[i]: watch goroutine i
          ref,      \* ref[t]: the tiggerChangesWatchKey that thread t is in
          script,   \* the calls the caller still makes
          ctl       \* the call the caller is in

etcd == <<store, hist>>
groups == <<hasKeys, names>>
vars == <<etcd, groups, fileMap, settings, handler, out, gor, ref, script, ctl>>

Caller == 0
Thread == Watchers \cup {Caller}
Idle == [call |-> "none", file |-> None, todo |-> {}]
NoRefresh == [key |-> None, due |-> {}, done |-> {}, at |-> None]
Free == [pc |-> "free", key |-> None, left |-> << >>, rev |-> 0, cancelled |-> FALSE,
         stray |-> FALSE]

Rows(f, w) == {r \in Conf[f] : r.name = w}
KeysOf(f) == {r.name : r \in Conf[f]}
NoNodes == [n \in Node |-> None]

\* The nodes a row lists: the ones whose version is in its range.
Listed(r, nodes) == {n \in Node : nodes[n] \in r.range}

-----------------------------------------------------------------------------
(* etcd *)

EtcdChange(w, n, v) ==
    /\ Len(hist) < MaxEvents
    /\ v # store[w][n]
    /\ store' = [store EXCEPT ![w][n] = v]
    /\ hist' = Append(hist, [key |-> w, node |-> n, val |-> v])
    /\ UNCHANGED <<groups, fileMap, settings, handler, out, gor, ref, script, ctl>>

-----------------------------------------------------------------------------
(* tiggerChangesWatchKey: write the files that mention a key again *)

Refresh(t, w) == ref' = [ref EXCEPT ![t] = [NoRefresh EXCEPT !.key = w, !.due = names[w]]]

\* The next file of the range over namesWithOutputFile[watchkey], read
\* without a lock.  A file added meanwhile may be visited or not.
RefreshNext(t) ==
    /\ ref[t].key # None /\ ref[t].at = None
    /\ \/ \E f \in names[ref[t].key] \ ref[t].done :
             ref' = [ref EXCEPT ![t].at = f]
       \/ /\ ref[t].due \cap names[ref[t].key] \subseteq ref[t].done
          /\ ref' = [ref EXCEPT ![t] = NoRefresh]
    /\ UNCHANGED <<etcd, groups, fileMap, settings, handler, out, gor, script, ctl>>

\* Mutant: the rows are appended to the file's map, old rows win.
RewriteMutant(f, w) ==
    LET old == IF fileMap[f] = None THEN << >> ELSE fileMap[f]
        new == IF f \in hasKeys THEN Rows(f, w) ELSE {}
    IN [s \in DOMAIN old \cup {r.sname : r \in new} |->
           IF s \in DOMAIN old THEN old[s]
           ELSE Listed(CHOOSE r \in new : r.sname = s, settings[w])]

\* The rows of w are computed anew, the others stay.
Rewrite(f, w) ==
    LET old == IF fileMap[f] = None THEN << >> ELSE fileMap[f]
        new == IF f \in hasKeys THEN Rows(f, w) ELSE {}
    IN [s \in DOMAIN old \cup {r.sname : r \in new} |->
           IF \E r \in new : r.sname = s
           THEN Listed(CHOOSE r \in new : r.sname = s, settings[w])
           ELSE old[s]]

\* One locked section: outputFileMap is updated and exported.
RefreshFile(t) ==
    LET f == ref[t].at
    IN /\ f # None
       /\ fileMap' = [fileMap EXCEPT ![f] = Rewrite(f, ref[t].key)]
       /\ out' = [out EXCEPT ![f] = fileMap'[f]]
       /\ ref' = [ref EXCEPT ![t].at = None, ![t].done = @ \cup {f}]
       /\ UNCHANGED <<etcd, groups, settings, handler, gor, script, ctl>>

-----------------------------------------------------------------------------
(* EtcdWatcher.watch: goroutine i, between its refreshes *)

At(i, l) == gor[i].pc = l /\ ref[i] = NoRefresh

\* Mutant: the value is stored although it does not parse.
ApplyMutant(w, n, v) ==
    settings' = [settings EXCEPT ![w][n] = v]

\* tiggerChangeWatchKeyValue: a deletion, or a value if it parses.
Apply(w, n, v) ==
    settings' = IF v = Bad THEN settings ELSE [settings EXCEPT ![w][n] = v]

\* history: what i delivers comes after a later goroutine read the same key.
Strays(i) ==
    gor[i].stray \/ \E j \in Watchers : j > i /\ gor[j].key = gor[i].key /\ gor[j].pc # "get"

\* Get reads the key's nodes at one revision.  An answer without nodes
\* empties the key and refreshes.
Get(i) ==
    LET w == gor[i].key
        nodes == {n \in Node : store[w][n] # None}
    IN /\ At(i, "get")
       /\ gor' = [gor EXCEPT ![i].rev = Len(hist),
                             ![i].left = [n \in nodes |-> store[w][n]],
                             ![i].pc = IF nodes = {} THEN "watch" ELSE "set",
                             ![i].stray = Strays(i)]
       /\ IF nodes = {}
          THEN /\ settings' = [settings EXCEPT ![w] = NoNodes]
               /\ Refresh(i, w)
          ELSE UNCHANGED <<settings, ref>>
       /\ UNCHANGED <<etcd, groups, fileMap, handler, out, script, ctl>>

\* Get times out or fails: the goroutine ends, its closeHandler stays.
GetFails(i) ==
    /\ Faults /\ At(i, "get")
    /\ gor' = [gor EXCEPT ![i].pc = "failed"]
    /\ UNCHANGED <<etcd, groups, fileMap, settings, handler, out, ref, script, ctl>>

\* listener.Set for one node of the answer.
SetNode(i) ==
    /\ At(i, "set")
    /\ \E n \in DOMAIN gor[i].left :
          /\ Apply(gor[i].key, n, gor[i].left[n])
          /\ gor' = [gor EXCEPT ![i].left = [k \in DOMAIN @ \ {n} |-> @[k]],
                                ![i].stray = Strays(i)]
    /\ UNCHANGED <<etcd, groups, fileMap, handler, out, ref, script, ctl>>

SetOk(i) ==
    /\ At(i, "set") /\ gor[i].left = << >>
    /\ gor' = [gor EXCEPT ![i].pc = "watch"]
    /\ Refresh(i, gor[i].key)
    /\ UNCHANGED <<etcd, groups, fileMap, settings, handler, out, script, ctl>>

Pending(i) == {j \in gor[i].rev + 1 .. Len(hist) : hist[j].key = gor[i].key}

\* Create, Modify or Delete: the value is applied, then the files refreshed.
\* select may take this case although ctx is already done.
WatchEvent(i) ==
    /\ At(i, "watch") /\ Pending(i) # {}
    /\ LET e == hist[Min(Pending(i))]
       IN /\ Apply(e.key, e.node, e.val)
          /\ Refresh(i, e.key)
    /\ gor' = [gor EXCEPT ![i].rev = Min(Pending(i)), ![i].stray = Strays(i)]
    /\ UNCHANGED <<etcd, groups, fileMap, handler, out, script, ctl>>

\* ctx.Done().
WatchEnds(i) ==
    /\ At(i, "watch") /\ gor[i].cancelled
    /\ gor' = [gor EXCEPT ![i].pc = "done"]
    /\ UNCHANGED <<etcd, groups, fileMap, settings, handler, out, ref, script, ctl>>

\* The watch ends with an error.
WatchFails(i) ==
    /\ Faults /\ At(i, "watch")
    /\ gor' = [gor EXCEPT ![i].pc = "failed"]
    /\ UNCHANGED <<etcd, groups, fileMap, settings, handler, out, ref, script, ctl>>

-----------------------------------------------------------------------------
(* The caller *)

Enter(call, f, todo) == ctl' = [call |-> call, file |-> f, todo |-> todo]

\* The caller begins its next call, up to the call's first locked section.
Begin ==
    /\ ctl = Idle /\ ref[Caller] = NoRefresh
    /\ script # << >>
    /\ script' = Tail(script)
    /\ LET call == Head(script)[1]
           f == Head(script)[2]
           known == {w \in Key : names[w] # {}}
       IN CASE call = "add"    -> IF f \in hasKeys THEN Enter("none", None, {})
                                  ELSE Enter("addKeys", f, {})
            [] call = "empty"  -> Enter("emptyMap", f, {})
            [] call = "watch"  -> Enter("watch", None, known)
            [] call = "export" -> Enter("export", None, known)
    /\ UNCHANGED <<etcd, groups, fileMap, settings, handler, out, gor, ref>>

\* AddGroupWatchs, its three locked sections.
AddKeys ==
    /\ ctl.call = "addKeys"
    /\ hasKeys' = hasKeys \cup {ctl.file}
    /\ Enter("addNames", ctl.file, {})
    /\ UNCHANGED <<etcd, names, fileMap, settings, handler, out, gor, ref, script>>

AddNames ==
    /\ ctl.call = "addNames"
    /\ names' = [w \in Key |-> IF w \in KeysOf(ctl.file)
                               THEN names[w] \cup {ctl.file} ELSE names[w]]
    /\ Enter("addMap", ctl.file, {})
    /\ UNCHANGED <<etcd, hasKeys, fileMap, settings, handler, out, gor, ref, script>>

AddMap ==
    /\ ctl.call = "addMap"
    /\ fileMap' = [fileMap EXCEPT ![ctl.file] = IF @ = None THEN << >> ELSE @]
    /\ ctl' = Idle
    /\ UNCHANGED <<etcd, groups, settings, handler, out, gor, ref, script>>

\* Mutant: the file is not taken off the watch list.
EmptyKeysMutant ==
    /\ ctl.call = "emptyKeys"
    /\ hasKeys' = hasKeys \ {ctl.file}
    /\ ctl' = Idle
    /\ UNCHANGED <<etcd, names, fileMap, settings, handler, out, gor, ref, script>>

\* EmptyGroupWatchs: outputFileMap goes first, the other maps after it.
EmptyMap ==
    /\ ctl.call = "emptyMap"
    /\ fileMap' = [fileMap EXCEPT ![ctl.file] = None]
    /\ IF ctl.file \in hasKeys THEN Enter("emptyKeys", ctl.file, {}) ELSE ctl' = Idle
    /\ UNCHANGED <<etcd, groups, settings, handler, out, gor, ref, script>>

EmptyKeys ==
    /\ ctl.call = "emptyKeys"
    /\ hasKeys' = hasKeys \ {ctl.file}
    /\ Enter("emptyNames", ctl.file, {})
    /\ UNCHANGED <<etcd, names, fileMap, settings, handler, out, gor, ref, script>>

\* The file leaves every key's list, and RemoveWatch ends the watch of the
\* keys no file mentions any more; etcdSettings keeps their nodes.
EmptyNames ==
    /\ ctl.call = "emptyNames"
    /\ names' = [w \in Key |-> names[w] \ {ctl.file}]
    /\ LET unused == {w \in KeysOf(ctl.file) : names'[w] = {}}
       IN /\ handler' = [w \in Key |-> IF w \in unused THEN None ELSE handler[w]]
          /\ gor' = [i \in Watchers |->
                        IF \E w \in unused : handler[w] = i
                        THEN [gor[i] EXCEPT !.cancelled = TRUE] ELSE gor[i]]
    /\ ctl' = Idle
    /\ UNCHANGED <<etcd, hasKeys, fileMap, settings, out, ref, script>>

\* Mutant: the handler of a key that has one is replaced.
AddWatchMutant ==
    /\ ctl.call = "watch" /\ ctl.todo # {}
    /\ \E w \in ctl.todo, i \in Watchers :
          /\ ctl' = [ctl EXCEPT !.todo = @ \ {w}]
          /\ gor[i].pc = "free"
          /\ \A j \in Watchers : gor[j].pc = "free" => i <= j
          /\ handler' = [handler EXCEPT ![w] = i]
          /\ gor' = [gor EXCEPT ![i] = [Free EXCEPT !.pc = "get", !.key = w]]
    /\ UNCHANGED <<etcd, groups, fileMap, settings, out, ref, script>>

\* ReloadEtcdWatch: AddWatch for each key, a no-op for a key that has one.
AddWatch ==
    /\ ctl.call = "watch" /\ ctl.todo # {}
    /\ \E w \in ctl.todo :
          /\ ctl' = [ctl EXCEPT !.todo = @ \ {w}]
          /\ IF handler[w] # None THEN UNCHANGED <<handler, gor>>
             ELSE \E i \in Watchers :
                     /\ gor[i].pc = "free"
                     /\ \A j \in Watchers : gor[j].pc = "free" => i <= j
                     /\ handler' = [handler EXCEPT ![w] = i]
                     /\ gor' = [gor EXCEPT ![i] = [Free EXCEPT !.pc = "get", !.key = w]]
    /\ UNCHANGED <<etcd, groups, fileMap, settings, out, ref, script>>

\* ReloadExport: tiggerChangesWatchKey for each key.
ExportKey ==
    /\ ctl.call = "export" /\ ctl.todo # {} /\ ref[Caller] = NoRefresh
    /\ \E w \in ctl.todo :
          /\ ctl' = [ctl EXCEPT !.todo = @ \ {w}]
          /\ Refresh(Caller, w)
    /\ UNCHANGED <<etcd, groups, fileMap, settings, handler, out, gor, script>>

Return ==
    /\ ctl.call \in {"watch", "export"} /\ ctl.todo = {} /\ ref[Caller] = NoRefresh
    /\ ctl' = Idle
    /\ UNCHANGED <<etcd, groups, fileMap, settings, handler, out, gor, ref, script>>

-----------------------------------------------------------------------------
Init ==
    /\ \E c \in Cases : store = c.store /\ script = c.script
    /\ hist = << >>
    /\ hasKeys = {}
    /\ names = [w \in Key |-> {}]
    /\ fileMap = [f \in File |-> None]
    /\ settings = [w \in Key |-> NoNodes]
    /\ handler = [w \in Key |-> None]
    /\ out = [f \in File |-> None]
    /\ gor = [i \in Watchers |-> Free]
    /\ ref = [t \in Thread |-> NoRefresh]
    /\ ctl = Idle

CallerStep == Begin \/ AddKeys \/ AddNames \/ AddMap \/ EmptyMap \/ EmptyKeys
              \/ EmptyNames \/ AddWatch \/ ExportKey \/ Return

WatcherStep(i) == Get(i) \/ SetNode(i) \/ SetOk(i) \/ WatchEvent(i) \/ WatchEnds(i)
WatcherFails(i) == GetFails(i) \/ WatchFails(i)

RefreshStep(t) == RefreshNext(t) \/ RefreshFile(t)

Next ==
    \/ CallerStep
    \/ \E i \in Watchers : WatcherStep(i) \/ WatcherFails(i)
    \/ \E t \in Thread : RefreshStep(t)
    \/ \E c \in Changes : EtcdChange(c[1], c[2], c[3])

\* The caller and every goroutine go on as long as they can; etcd delivers.
\* Nobody has to change etcd, and nothing has to fail.
Fairness ==
    /\ WF_vars(CallerStep)
    /\ \A i \in Watchers : WF_vars(WatcherStep(i))
    /\ \A t \in Thread : WF_vars(RefreshStep(t))

Spec == Init /\ [][Next]_vars /\ Fairness

-----------------------------------------------------------------------------
(* Properties *)

Event == [key : Key, node : Node, val : Value]
Goroutine ==
    [pc : {"free", "get", "set", "watch", "done", "failed"}, key : Key \cup {None},
     left : UNION {[D -> Value] : D \in SUBSET Node}, rev : Nat, cancelled : BOOLEAN,
     stray : BOOLEAN]
Refreshing == [key : Key \cup {None}, due : SUBSET File, done : SUBSET File, at : File \cup {None}]

\* The locked sections of AddGroupWatchs and EmptyGroupWatchs, then all calls.
Grouping == {"addKeys", "addNames", "addMap", "emptyMap", "emptyKeys", "emptyNames"}
Calling == [call : {"none", "watch", "export"} \cup Grouping, file : File \cup {None},
            todo : SUBSET Key]

\* A file's map holds only rows of its own.
RowsOnly(m) ==
    /\ DOMAIN m = File
    /\ \A f \in File :
          m[f] # None => /\ DOMAIN m[f] \subseteq {r.sname : r \in Conf[f]}
                         /\ \A s \in DOMAIN m[f] : m[f][s] \subseteq Node

\* Every variable has its type; files hold only their rows, and a goroutine
\* has seen no change that etcd has not made.
TypeOK ==
    /\ store \in [Key -> [Node -> Value]]
    /\ hist \in Seq(Event)
    /\ settings \in [Key -> [Node -> Ver \cup {None}]]
    /\ hasKeys \subseteq File
    /\ names \in [Key -> SUBSET File]
    /\ handler \in [Key -> Watchers \cup {None}]
    /\ RowsOnly(fileMap) /\ RowsOnly(out)
    /\ gor \in [Watchers -> Goroutine]
    /\ \A i \in Watchers : /\ gor[i].rev <= Len(hist)
                           /\ gor[i].pc # "free" => gor[i].key \in Key
    /\ ref \in [Thread -> Refreshing]
    /\ script \in Seq(Call)
    /\ ctl \in Calling /\ (ctl.call \in Grouping => ctl.file \in File)

\* The key was watched, given up and watched again.
WatchedAgain(w) == \E i, j \in Watchers : i # j /\ gor[i].key = w /\ gor[j].key = w

\* What file f should say: each row with the nodes etcd has in its range.  For
\* a key that is watched again nodes that left etcd meanwhile may stay.
Current(f) ==
    /\ out[f] # None
    /\ \A r \in Conf[f] :
          LET listed == Listed(r, store[r.name])
          IN /\ r.sname \in DOMAIN out[f]
             /\ listed \subseteq out[f][r.sname]
             /\ \A n \in out[f][r.sname] \ listed :
                   WatchedAgain(r.name) /\ store[r.name][n] = None

\* Every value in etcd parses, no goroutine failed, and none that was
\* cancelled delivered what its successor had read already.
Healthy ==
    /\ \A w \in Key, n \in Node : store[w][n] # Bad
    /\ \A i \in Watchers : gor[i].pc # "failed" /\ ~gor[i].stray

\* Once etcd stops changing, the exported file of every group that is watched
\* ends up with exactly the nodes in etcd whose version fits ("refresh the
\* changes of a key", etcd_listen.go:239), whatever the goroutines, the
\* reloads and the removal of other groups interleaved with, unless a
\* goroutine failed, a cancelled one delivered late or a value left in etcd
\* does not parse.  A group that is removed and added again misses no node
\* either, but may keep nodes that left etcd while nobody watched
\* (etcd_watcher.go:124-131).
Settles == <>[](Healthy => \A f \in hasKeys : Current(f))

\* Between calls the maps agree: a key lists exactly the added files that
\* mention it, and nothing is watched that no file mentions
\* (etcd_listen.go:62-70, 101-131).
MapsAgree ==
    ctl = Idle =>
        \A w \in Key : /\ names[w] = {f \in hasKeys : w \in KeysOf(f)}
                       /\ handler[w] # None => names[w] # {}

\* closeHandler and the goroutines agree at every moment: the handler of a key
\* is of a goroutine that watches this key and was not told to stop, and every
\* goroutine that was not told to stop is the handler of its key, so no key
\* has two watches and none is left that nobody can end any more
\* (etcd_watcher.go:54-82).
OneWatcher ==
    /\ \A w \in Key : handler[w] # None =>
          LET g == gor[handler[w]]
          IN g.key = w /\ ~g.cancelled /\ g.pc \notin {"free", "done"}
    /\ \A i \in Watchers : gor[i].pc # "free" /\ ~gor[i].cancelled => handler[gor[i].key] = i
=============================================================================
