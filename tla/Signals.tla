------------------------------- MODULE Signals -------------------------------
(***************************************************************************)
(* oxen/signals.py and the listeners of oxen/models.py, for one model and  *)
(* one signal of each pair (pre_save, post_save).  SignalManager.send walks*)
(* the receivers' own list while they run, and they may change it; a       *)
(* save() awaits the model's listeners one by one while other tasks save   *)
(* and register.  The two registries know nothing of each other: save()    *)
(* calls no receiver of a SignalManager.                                   *)
(***************************************************************************)
EXTENDS Integers, Sequences

CONSTANTS
    Receivers,    \* functions; they serve as listeners too
    Tasks,        \* each saves one instance
    MaxReceivers, \* bound: entries of the manager's list
    MaxListeners  \* bound: entries of a model's list

SignalsAssumption == {MaxReceivers, MaxListeners} \subseteq Nat

VARIABLES
    receivers,    \* SignalManager._receivers[pre_save][model]
    cleared,      \* has clear() put another list in its place during a send()?
    walked,       \* if so, the list that send() goes on to walk
    turn,         \* entries walked, 0 when no send() is under way
    responses,    \* whom the last send() called
    begun,        \* history: the receivers when it began
    gone,         \* history: the receivers disconnected since
    skips,        \* history: was one of them disconnected after its turn?
    listeners,    \* Model._listeners: for each signal, a list
    pc, heard,    \* of each save(): where it is, the listeners it has called
    known,        \* history: the listeners when it came to each signal
    stored        \* the tasks whose row the database has

manager == <<receivers, cleared, walked, turn, responses, begun, gone, skips>>
saves   == <<listeners, pc, heard, known, stored>>
vars    == <<receivers, cleared, walked, turn, responses, begun, gone, skips,
             listeners, pc, heard, known, stored>>

Hooks == {"pre_save", "post_save"}

SignalsTypeOK ==
    /\ {receivers, walked, responses, begun} \subseteq Seq(Receivers)
    /\ turn \in Nat /\ {cleared, skips} \subseteq BOOLEAN
    /\ gone \subseteq Receivers
    /\ listeners \in [Hooks -> Seq(Receivers)]
    /\ pc \in [Tasks -> Hooks \cup {"new", "insert", "saved", "raised"}]
    /\ heard \in [Tasks -> [Hooks -> Seq(Receivers)]]
    /\ known \in [Tasks -> [Hooks -> Seq(Receivers)]]
    /\ stored \subseteq Tasks

Init ==
    /\ receivers = <<>> /\ cleared = FALSE /\ walked = <<>> /\ turn = 0
    /\ responses = <<>> /\ begun = <<>> /\ gone = {} /\ skips = FALSE
    /\ listeners = [h \in Hooks |-> <<>>]
    /\ pc = [t \in Tasks |-> "new"]
    /\ heard = [t \in Tasks |-> [h \in Hooks |-> <<>>]]
    /\ known = [t \in Tasks |-> [h \in Hooks |-> <<>>]]
    /\ stored = {}

-----------------------------------------------------------------------------
(* SignalManager                                                            *)

Sending == turn > 0
Walk == IF cleared THEN walked ELSE receivers

Connect(r) ==
    /\ Len(receivers) < MaxReceivers
    /\ receivers' = Append(receivers, r)
    /\ UNCHANGED <<cleared, walked, turn, responses, begun, gone, skips, saves>>

(* list.remove takes the first of equal entries.                            *)
Disconnect(r) ==
    /\ \E i \in 1 .. Len(receivers) :
          /\ receivers[i] = r /\ \A j \in 1 .. i - 1 : receivers[j] # r
          /\ receivers' = SubSeq(receivers, 1, i - 1)
                            \o SubSeq(receivers, i + 1, Len(receivers))
          /\ skips' = (skips \/ (Sending /\ ~cleared /\ i < turn))
    /\ gone' = IF Sending THEN gone \cup {r} ELSE gone
    /\ UNCHANGED <<cleared, walked, turn, responses, begun, saves>>

(* clear() puts a new list in place of the old, which a send() walks on.    *)
Clear ==
    /\ receivers' = <<>>
    /\ cleared' = Sending /\ walked' = IF Sending THEN Walk ELSE <<>>
    /\ UNCHANGED <<turn, responses, begun, gone, skips, saves>>

StartSend ==
    /\ ~Sending /\ receivers # <<>>
    /\ cleared' = FALSE /\ walked' = <<>> /\ turn' = 1
    /\ responses' = <<>> /\ begun' = receivers /\ gone' = {} /\ skips' = FALSE
    /\ UNCHANGED <<receivers, saves>>

(* Mutant: an exception ends the loop.                                      *)
StopAtError ==
    /\ Sending /\ turn <= Len(Walk)
    /\ responses' = Append(responses, Walk[turn])
    /\ turn' \in {turn + 1, Len(Walk) + 1}
    /\ UNCHANGED <<receivers, cleared, walked, begun, gone, skips, saves>>

(* The receiver whose turn it is returns or raises; what it does to the     *)
(* lists are the actions above, between this call and the next.             *)
CallReceiver ==
    /\ Sending /\ turn <= Len(Walk)
    /\ Len(responses) < 2 * MaxReceivers
    /\ responses' = Append(responses, Walk[turn])
    /\ turn' = turn + 1
    /\ UNCHANGED <<receivers, cleared, walked, begun, gone, skips, saves>>

EndSend ==
    /\ Sending /\ turn > Len(Walk)
    /\ turn' = 0 /\ cleared' = FALSE /\ walked' = <<>>
    /\ UNCHANGED <<receivers, responses, begun, gone, skips, saves>>

-----------------------------------------------------------------------------
(* Model.save and its listeners                                             *)

Register(h, r) ==
    /\ Len(listeners[h]) < MaxListeners
    /\ listeners' = [listeners EXCEPT ![h] = Append(@, r)]
    /\ UNCHANGED <<manager, pc, heard, known, stored>>

(* The save comes to a signal's listeners.                                  *)
GoTo(t, h) ==
    /\ pc' = [pc EXCEPT ![t] = h]
    /\ known' = [known EXCEPT ![t][h] = listeners[h]]

Save(t) ==
    /\ pc[t] = "new"
    /\ GoTo(t, "pre_save")
    /\ UNCHANGED <<manager, listeners, heard, stored>>

(* Where a save goes that has called the last listener.                     *)
After(h) == IF h = "pre_save" THEN "insert" ELSE "saved"

Rest(t, h) == Len(listeners[h]) - Len(heard[t][h])

(* Mutant: an exception of a listener is dropped, and the others with it.   *)
DropError(t, h) ==
    /\ pc[t] = h /\ Rest(t, h) > 0
    /\ pc' = [pc EXCEPT ![t] = After(h)]
    /\ UNCHANGED <<manager, listeners, heard, known, stored>>

(* An exception of a listener goes to the caller of save().                 *)
ListenerRaises(t, h) ==
    /\ pc[t] = h /\ Rest(t, h) > 0
    /\ pc' = [pc EXCEPT ![t] = "raised"]
    /\ UNCHANGED <<manager, listeners, heard, known, stored>>

Listen(t, h) ==
    /\ pc[t] = h /\ Rest(t, h) > 0
    /\ heard' = [heard EXCEPT ![t][h] = Append(@, listeners[h][Len(@) + 1])]
    /\ UNCHANGED <<manager, listeners, pc, known, stored>>

ListenersDone(t, h) ==
    /\ pc[t] = h /\ Rest(t, h) = 0
    /\ pc' = [pc EXCEPT ![t] = After(h)]
    /\ UNCHANGED <<manager, listeners, heard, known, stored>>

Insert(t) ==
    /\ pc[t] = "insert"
    /\ \/ stored' = stored \cup {t} /\ GoTo(t, "post_save")
       \/ pc' = [pc EXCEPT ![t] = "raised"] /\ UNCHANGED <<stored, known>>
    /\ UNCHANGED <<manager, listeners, heard>>

SendNext ==
    \/ \E r \in Receivers : Connect(r) \/ Disconnect(r)
    \/ Clear \/ StartSend \/ CallReceiver \/ EndSend

SaveNext ==
    \/ \E h \in Hooks :
          \/ \E r \in Receivers : Register(h, r)
          \/ \E t \in Tasks :
                Listen(t, h) \/ ListenerRaises(t, h) \/ ListenersDone(t, h)
    \/ \E t \in Tasks : Save(t) \/ Insert(t)

Next == SendNext \/ SaveNext

Spec == Init /\ [][Next]_vars

-----------------------------------------------------------------------------
(* Properties                                                               *)

Members(seq) == {seq[i] : i \in 1 .. Len(seq)}
IsPrefixOf(s, u) == Len(s) <= Len(u) /\ s = SubSeq(u, 1, Len(s))

(* A send() that is over has called every receiver that was connected when  *)
(* it began and not disconnected since, whatever receivers raise, connect,  *)
(* disconnect and clear meanwhile - if none was disconnected whose turn had *)
(* been, which makes the walk skip the next one.                            *)
SendReachesAll ==
    ~Sending /\ ~skips => Members(begun) \ gone \subseteq Members(responses)

(* A row is stored only after every listener there was when its save began  *)
(* has returned, in the order of registration; a save that returns has      *)
(* called every listener there was when the row was stored; listeners that  *)
(* other tasks register meanwhile may be called and never replace one.      *)
ListenersFrameTheRow ==
    \A t \in Tasks :
        /\ t \in stored =>
              IsPrefixOf(known[t]["pre_save"], heard[t]["pre_save"])
        /\ pc[t] = "saved" =>
              IsPrefixOf(known[t]["post_save"], heard[t]["post_save"])

SignalsSound == SendReachesAll /\ ListenersFrameTheRow
=============================================================================
