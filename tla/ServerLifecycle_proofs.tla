------------------------- MODULE ServerLifecycle_proofs -------------------------
(***************************************************************************)
(* Proofs about ServerLifecycle and the operators of ConfigFile, for any   *)
(* settings, values, commands, files, environments and options.            *)
(***************************************************************************)
EXTENDS ServerLifecycle, SequenceTheorems, WellFoundedInduction, TLAPS

-------------------------------------------------------------------------------
(* A stop is never taken for a start. *)

\* What holds in each phase: the order in which _serve_async starts things, and that
\* the ready task polls only until serve() is left.
PhaseInv ==
  /\ proc \in {"auth", "pool", "uvicorn", "serving"} => auth_on
  /\ proc \in {"pool", "uvicorn", "serving"} => pool_on
  /\ proc \in {"bind", "auth", "pool"} => ready = "none"
  /\ proc = "draining" => stopping
  /\ proc = "cleaning" => ready # "polling"
  /\ listened => proc \in {"serving", "draining", "cleaning", "down"}

\* A signal before the socket listens is remembered, and ends the polling once it does.
StartInv ==
  /\ NoFalseStart /\ PhaseInv
  /\ stopping \in BOOLEAN /\ listened \in BOOLEAN /\ early \in BOOLEAN
  /\ early => stopping
  /\ early /\ listened => ready # "polling"
  /\ ready = "sent" => listened

LEMMA StartInit == Init => StartInv
  BY DEF Init, StartInv, PhaseInv, NoFalseStart

LEMMA StartStep == StartInv /\ [Next]_vars => StartInv'
  <1> SUFFICES ASSUME StartInv, [Next]_vars PROVE StartInv'
    OBVIOUS
  <1> USE DEF StartInv, PhaseInv, NoFalseStart, server, start, edit, Exit, Leave
  <1>1. CASE UNCHANGED vars
    BY <1>1 DEF vars
  <1>2. ASSUME NEW e \in Editor,
               ReadLines(e) \/ Truncate(e) \/ WriteLines(e) \/ EditorDies(e)
        PROVE  StartInv'
    BY <1>2 DEF ReadLines, Truncate, WriteLines, EditorDies
  <1>3. CASE Start
    BY <1>3 DEF Start
  <1>4. CASE Validate \/ StartPool \/ StartUvicorn
    BY <1>4 DEF Validate, StartPool, StartUvicorn
  <1>5. CASE EarlySignal \/ Killed \/ Clean
    BY <1>5 DEF EarlySignal, Killed, Clean
  <1>6. CASE ListenFails \/ Listen
    <2>1. /\ proc = "uvicorn" /\ ~listened /\ ready # "sent"
          /\ UNCHANGED <<auth_on, pool_on, stopping, early>>
      BY <1>6 DEF ListenFails, Listen
    <2>2. CASE ListenFails \/ (Listen /\ stopping)
      <3>1. proc' = "cleaning" /\ ready' \notin {"polling", "sent"}
        BY <2>1, <2>2 DEF ListenFails, Listen
      <3>2. listened' \in BOOLEAN
        BY <2>2 DEF ListenFails, Listen
      <3> QED BY <2>1, <3>1, <3>2
    <2>3. CASE Listen /\ ~stopping
      <3>1. proc' = "serving" /\ ready' = ready /\ listened'
        BY <2>3 DEF Listen
      <3>2. ~early /\ auth_on /\ pool_on
        BY <2>1, <2>3
      <3> QED BY <2>1, <3>1, <3>2, Zenon
    <2> QED BY <1>6, <2>2, <2>3
  <1>7. CASE OnReady
    BY <1>7 DEF OnReady
  <1>8. CASE RequestStop \/ ClientStalls
    <2>1. /\ UNCHANGED <<proc, auth_on, pool_on, ready, listened>>
          /\ proc \in {"uvicorn", "serving", "draining", "cleaning"}
          /\ \/ stopping' /\ early' = (early \/ ~listened)
             \/ UNCHANGED <<stopping, early>>
      BY <1>8 DEF RequestStop, ClientStalls
    <2>2. stopping' \in BOOLEAN /\ early' \in BOOLEAN
      BY <1>8 DEF RequestStop, ClientStalls
    <2>3. CASE UNCHANGED <<stopping, early>>
      BY <2>1, <2>3
    <2>4. CASE stopping' /\ early' = (early \/ ~listened)
      <3>1. early' => ready' # "sent" /\ (listened' => ready' # "polling")
        BY <2>1, <2>4
      <3> QED BY <2>1, <2>2, <2>4, <3>1
    <2> QED BY <2>1, <2>3, <2>4
  <1>9. CASE Drain \/ Drained
    BY <1>9 DEF Drain, Drained
  <1> QED BY <1>1, <1>2, <1>3, <1>4, <1>5, <1>6, <1>7, <1>8, <1>9 DEF Next, Step

\* Whenever signals come: after one before the socket listens READY=1 is never sent, and
\* a process that has sent it and was not told to stop serves, pool and watchdog at work.
THEOREM ServiceNoFalseStart == Spec => []NoFalseStart
  <1>1. StartInv => NoFalseStart
    BY DEF StartInv
  <1> QED BY <1>1, StartInit, StartStep, PTL DEF Spec

-------------------------------------------------------------------------------
(* What is set takes effect: first the operators on files. *)

FirstAt(f, k) == CHOOSE i \in At(f, k) : \A j \in At(f, k) : i <= j

\* A key that stands in a file has a first line.
LEMMA FirstLine ==
  ASSUME NEW f \in Lines, NEW k \in Key, At(f, k) # {}
  PROVE  /\ FirstAt(f, k) \in At(f, k) /\ FirstAt(f, k) \in 1 .. Len(f)
  <1>1. At(f, k) \subseteq 1 .. Len(f)
    BY LenProperties DEF At, Lines
  <1>2. At(f, k) \subseteq Nat
    BY <1>1, LenProperties DEF Lines
  <1>3. \E i \in At(f, k) : \A j \in At(f, k) : i <= j
    <2> DEFINE R == OpToRel(<, Nat)
    <2>1. \E i \in At(f, k) : \A j \in At(f, k) : <<j, i>> \notin R
      <3> HIDE DEF R
      <3>1. IsWellFoundedOn(R, Nat)
        BY NatLessThanWellFounded DEF R
      <3> QED BY <1>2, <3>1, WFMin
    <2>2. \A i, j \in At(f, k) : <<j, i>> \notin R => i <= j
      BY <1>2 DEF OpToRel
    <2> QED BY <2>1, <2>2
  <1> QED BY <1>1, <1>3 DEF FirstAt

\* g is f with the line i, an old one of the key or a new one, for the setting.
Edited(f, g, i, k, v) ==
  /\ At(f, k) # {} => i \in At(f, k)
  /\ At(f, k) = {} => i \notin DOMAIN f
  /\ DOMAIN g = DOMAIN f \cup {i} /\ g[i] = <<k, v>>
  /\ \A j \in DOMAIN f \ {i} : g[j] = f[j]

\* What a written file has in its lines: the new one, and the old ones.
LEMMA WrittenLines ==
  ASSUME NEW f \in Lines, NEW k \in Key, NEW v \in Value
  PROVE  /\ Written(f, k, v) \in Lines
         /\ \E i \in Nat : Edited(f, Written(f, k, v), i, k, v)
  <1> DEFINE S == (Key \cup {NoKey}) \X Value
  <1>0. f \in Seq(S) /\ <<k, v>> \in S /\ DOMAIN f = 1 .. Len(f) /\ Len(f) \in Nat
    BY LenProperties DEF Lines
  <1>1. CASE At(f, k) = {}
    <2> DEFINE g == Append(f, <<k, v>>)
    <2>1. /\ g \in Seq(S) /\ Len(g) = Len(f) + 1 /\ g[Len(f) + 1] = <<k, v>>
          /\ \A j \in 1 .. Len(f) : g[j] = f[j]
      BY <1>0, AppendProperties
    <2>2. DOMAIN g = 1 .. (Len(f) + 1)
      BY <2>1, LenProperties
    <2>3. DOMAIN g = DOMAIN f \cup {Len(f) + 1} /\ Len(f) + 1 \in Nat /\ Len(f) + 1 \notin DOMAIN f
      BY <1>0, <2>2
    <2>4. Written(f, k, v) = g
      BY <1>1 DEF Written
    <2> HIDE DEF g
    <2>5. \A j \in DOMAIN f \ {Len(f) + 1} : g[j] = f[j]
      BY <1>0, <2>1
    <2> QED BY <1>1, <2>1, <2>3, <2>4, <2>5 DEF Lines, Edited
  <1>2. CASE At(f, k) # {}
    <2> DEFINE i == FirstAt(f, k)
               g == [f EXCEPT ![i] = <<k, v>>]
    <2>1. i \in At(f, k) /\ i \in 1 .. Len(f)
      BY <1>2, FirstLine
    <2>2. g \in Seq(S) /\ DOMAIN g = DOMAIN f
      BY <1>0, <2>1, ExceptSeq
    <2>3. g[i] = <<k, v>> /\ \A j \in DOMAIN f \ {i} : g[j] = f[j]
      BY <1>0, <2>1
    <2>4. Written(f, k, v) = g
      BY <1>2 DEF Written, FirstAt
    <2>5. i \in Nat /\ DOMAIN g = DOMAIN f \cup {i} /\ Written(f, k, v) \in Lines
      BY <1>0, <2>1, <2>2, <2>4 DEF Lines
    <2> HIDE DEF g, i
    <2> QED BY <1>2, <2>1, <2>3, <2>4, <2>5 DEF Edited
  <1> QED BY <1>1, <1>2

\* Of a key that stands in a file once, its line is what is loaded.
LEMMA LoadOnce ==
  ASSUME NEW f \in Lines, NEW k \in Key, NEW i \in At(f, k), Once(f, k)
  PROVE  Load(f)[k] = Strip[f[i][2]]
  <1>1. At(f, k) = {i}
    BY DEF Once
  <1>2. i \in Nat
    BY LenProperties DEF At, Lines
  <1>3. (CHOOSE j \in {i} : \A l \in {i} : l <= j) = i
    BY <1>2
  <1> QED BY <1>1, <1>3 DEF Load

\* The value that was written is what is loaded.
LEMMA LoadWritten ==
  ASSUME NEW f \in Lines, NEW k \in Key, NEW v \in Value, Once(Written(f, k, v), k)
  PROVE  Load(Written(f, k, v))[k] = Strip[v]
  <1> DEFINE g == Written(f, k, v)
  <1>0. g \in Lines
    BY WrittenLines
  <1>1. PICK i \in Nat : Edited(f, g, i, k, v)
    BY WrittenLines
  <1>2. Once(g, k)
    OBVIOUS
  <1> HIDE DEF g
  <1>3. i \in At(g, k) /\ g[i][2] = v
    BY <1>1 DEF At, Edited
  <1>4. Load(g)[k] = Strip[g[i][2]]
    BY <1>0, <1>1, <1>2, <1>3, LoadOnce
  <1> QED BY <1>3, <1>4 DEF g

\* The other settings keep their lines.
LEMMA LoadOthers ==
  ASSUME NEW f \in Lines, NEW k \in Key, NEW v \in Value, NEW n \in Key \ {k},
         Once(Written(f, k, v), n)
  PROVE  Once(f, n) /\ Load(Written(f, k, v))[n] = Load(f)[n]
  <1> DEFINE g == Written(f, k, v)
  <1>0. g \in Lines
    BY WrittenLines
  <1>1. PICK i \in Nat : Edited(f, g, i, k, v)
    BY WrittenLines
  <1>2. Once(g, n)
    OBVIOUS
  <1> HIDE DEF g
  <1>3. i \notin At(f, n) /\ i \notin At(g, n)
    BY <1>1 DEF At, Edited
  <1>4. \A j : j \in At(g, n) <=> j \in At(f, n)
    BY <1>1, <1>3 DEF At, Edited
  <1>5. At(g, n) = At(f, n)
    BY <1>4
  <1>6. Once(f, n)
    BY <1>2, <1>5 DEF Once
  <1>7. CASE At(f, n) = {}
    BY <1>5, <1>6, <1>7 DEF Load, g
  <1>8. ASSUME NEW j \in At(f, n) PROVE Load(g)[n] = Load(f)[n]
    <2>1. j # i /\ j \in DOMAIN f /\ j \in At(g, n)
      BY <1>3, <1>5, <1>8 DEF At
    <2>2. g[j] = f[j]
      BY <1>1, <2>1 DEF Edited
    <2> QED BY <1>0, <1>1, <1>2, <1>6, <1>8, <2>1, <2>2, LoadOnce
  <1> QED BY <1>6, <1>7, <1>8 DEF g

\* What is loaded from a file agrees with what was set.
Holds(f, w) == \A k \in Key : w[k] # Unset /\ Once(f, k) => Load(f)[k] = Strip[w[k]]

Command == [at : {"read", "open"}, key : Key, val : Value, lines : Lines, alone : BOOLEAN]

\* A command that is alone is the only one at work, and the lines it has in hand agree
\* with what was set; so does the file, unless somebody has just emptied it.
EffectInv ==
  /\ file \in Lines /\ wanted \in Settings /\ editor \in [Editor -> {Idle} \cup Command]
  /\ \A e, f \in Editor : editor[e] # Idle /\ editor[e].alone /\ f # e => editor[f] = Idle
  /\ (\A e \in Editor : editor[e].at # "open") => Holds(file, wanted)
  /\ \A e \in Editor : editor[e] # Idle /\ editor[e].alone => Holds(editor[e].lines, wanted)

LEMMA CommandAt == \A c \in {Idle} \cup Command : (c.at = "idle") <=> (c = Idle)
  BY DEF Idle, Command

\* Nothing is known to have been set.
LEMMA HoldsUnknown == \A f : Holds(f, Unknown)
  BY DEF Holds, Unknown

LEMMA UnknownType == Unknown \in Settings
  BY DEF Unknown, Settings

LEMMA EffectInit == Init => EffectInv
  <1> SUFFICES ASSUME Init PROVE EffectInv
    OBVIOUS
  <1>1. file \in Lines /\ wanted \in Settings /\ \A e \in Editor : editor[e] = Idle
    BY LifecycleAssumption, UnknownType DEF Init
  <1>2. editor \in [Editor -> {Idle} \cup Command]
    BY DEF Init
  <1> QED BY <1>1, <1>2, HoldsUnknown DEF Init, EffectInv

\* What a command writes agrees with what was set before and by itself.
LEMMA HoldsWritten ==
  ASSUME NEW f \in Lines, NEW w \in Settings, NEW k \in Key, NEW v \in Value, Holds(f, w)
  PROVE  Holds(Written(f, k, v), [w EXCEPT ![k] = v])
  <1> SUFFICES ASSUME NEW n \in Key, [w EXCEPT ![k] = v][n] # Unset, Once(Written(f, k, v), n)
               PROVE  Load(Written(f, k, v))[n] = Strip[[w EXCEPT ![k] = v][n]]
    BY DEF Holds
  <1>1. CASE n = k
    BY <1>1, LoadWritten DEF Settings
  <1>2. CASE n # k
    <2>1. [w EXCEPT ![k] = v][n] = w[n]
      BY <1>2 DEF Settings
    <2>2. Once(f, n) /\ Load(Written(f, k, v))[n] = Load(f)[n]
      BY <1>2, LoadOthers
    <2> QED BY <2>1, <2>2 DEF Holds
  <1> QED BY <1>1, <1>2

LEMMA EffectRead ==
  ASSUME EffectInv, NEW e \in Editor, ReadLines(e)
  PROVE  EffectInv'
  <1>1. PICK s \in Sets[e] :
          editor' = [f \in Editor |->
            IF f = e THEN [at |-> "read", key |-> s[1], val |-> s[2], lines |-> file,
                           alone |-> Others(e) = {}]
            ELSE IF f \in Others(e) THEN [editor[f] EXCEPT !.alone = FALSE] ELSE editor[f]]
    BY DEF ReadLines
  <1>2. s[1] \in Key /\ s[2] \in Value
    BY LifecycleAssumption
  <1>3. editor[e] = Idle /\ file' = file /\ wanted' = wanted
    BY CommandAt DEF ReadLines, EffectInv
  <1>4. \A f \in Others(e) : f \in Editor /\ f # e /\ editor[f] \in Command
    BY CommandAt DEF Others, EffectInv
  <1>5. \A f \in Editor \ {e} : f \notin Others(e) => editor[f] = Idle /\ editor'[f] = Idle
    BY <1>1, CommandAt DEF Others, EffectInv
  <1>6. \A f \in Others(e) :
          /\ editor'[f] \in Command /\ ~editor'[f].alone /\ editor'[f].at = editor[f].at
    BY <1>1, <1>4 DEF Command
  <1>7. /\ editor'[e] \in Command /\ editor'[e].at = "read" /\ editor'[e].lines = file
        /\ editor'[e].alone <=> Others(e) = {}
    BY <1>1, <1>2 DEF Command, EffectInv
  <1>8. editor' \in [Editor -> {Idle} \cup Command]
    <2>1. \A f \in Editor : editor'[f] \in {Idle} \cup Command
      BY <1>5, <1>6, <1>7
    <2> QED BY <1>1, <2>1
  <1>9. \A f, g \in Editor : editor'[f] # Idle /\ editor'[f].alone /\ g # f => editor'[g] = Idle
    BY <1>5, <1>6, <1>7
  <1>10. (\A f \in Editor : editor'[f].at # "open") => \A f \in Editor : editor[f].at # "open"
    BY <1>3, <1>5, <1>6 DEF Idle
  <1>11. \A f \in Editor : editor'[f] # Idle /\ editor'[f].alone => f = e /\ Others(e) = {}
    BY <1>5, <1>6, <1>7
  <1>12. Others(e) = {} => \A f \in Editor : editor[f].at # "open"
    BY <1>3, <1>5 DEF Idle
  <1>13. \A f \in Editor : editor'[f] # Idle /\ editor'[f].alone => Holds(editor'[f].lines, wanted)
    BY <1>7, <1>11, <1>12 DEF EffectInv
  <1> QED BY <1>3, <1>8, <1>9, <1>10, <1>13 DEF EffectInv

LEMMA EffectTruncate ==
  ASSUME EffectInv, NEW e \in Editor, Truncate(e)
  PROVE  EffectInv'
  <1>1. editor[e] \in Command /\ wanted' = wanted /\ file' = <<>>
    BY CommandAt DEF Truncate, EffectInv, Idle
  <1>2. /\ editor' = [editor EXCEPT ![e].at = "open"] /\ editor \in [Editor -> {Idle} \cup Command]
    BY DEF Truncate, EffectInv
  <1>3. /\ editor'[e] \in Command /\ editor'[e].at = "open"
        /\ editor'[e].alone = editor[e].alone /\ editor'[e].lines = editor[e].lines
    BY <1>1, <1>2 DEF Command
  <1>4. \A f \in Editor \ {e} : editor'[f] = editor[f]
    BY <1>2
  <1>5. editor[e] # Idle
    BY <1>1 DEF Command, Idle
  <1>6. editor' \in [Editor -> {Idle} \cup Command]
    BY <1>2, <1>3
  <1>7. file' \in Lines
    BY <1>1 DEF Lines
  <1>8. \A f, g \in Editor : editor'[f] # Idle /\ editor'[f].alone /\ g # f => editor'[g] = Idle
    BY <1>3, <1>4, <1>5 DEF EffectInv
  <1>9. \A f \in Editor : editor'[f] # Idle /\ editor'[f].alone => Holds(editor'[f].lines, wanted)
    BY <1>3, <1>4, <1>5 DEF EffectInv
  <1> QED BY <1>1, <1>3, <1>6, <1>7, <1>8, <1>9 DEF EffectInv

\* A command ends, and its editor is idle again.
LEMMA EffectEnds ==
  ASSUME EffectInv, NEW e \in Editor, editor' = [editor EXCEPT ![e] = Idle]
  PROVE  /\ editor' \in [Editor -> {Idle} \cup Command]
         /\ editor'[e] = Idle /\ \A f \in Editor \ {e} : editor'[f] = editor[f]
         /\ \A f, g \in Editor : editor'[f] # Idle /\ editor'[f].alone /\ g # f => editor'[g] = Idle
  BY DEF EffectInv

LEMMA EffectWrite ==
  ASSUME EffectInv, NEW e \in Editor, WriteLines(e)
  PROVE  EffectInv'
  <1> DEFINE c == editor[e]
  <1>1. c \in Command /\ c # Idle /\ file' = Written(c.lines, c.key, c.val)
    BY CommandAt DEF WriteLines, EffectInv, Idle
  <1>2. c.lines \in Lines /\ c.key \in Key /\ c.val \in Value /\ c.alone \in BOOLEAN
    BY <1>1 DEF Command
  <1>3. file' \in Lines
    BY <1>1, <1>2, WrittenLines
  <1>4. editor' = [editor EXCEPT ![e] = Idle]
    BY DEF WriteLines
  <1>5. CASE c.alone
    <2>1. wanted' = [wanted EXCEPT ![c.key] = c.val] /\ wanted' \in Settings
      BY <1>2, <1>5 DEF WriteLines, EffectInv, Settings
    <2>2. Holds(file', wanted')
      <3>1. Holds(c.lines, wanted) /\ wanted \in Settings
        BY <1>1, <1>5 DEF EffectInv
      <3> QED BY <1>1, <1>2, <2>1, <3>1, HoldsWritten
    <2>3. \A f \in Editor : editor'[f] = Idle
      BY <1>1, <1>4, <1>5, EffectEnds DEF EffectInv
    <2> QED BY <1>3, <1>4, <2>1, <2>2, <2>3, EffectEnds DEF EffectInv
  <1>6. CASE ~c.alone
    <2>1. wanted' = Unknown
      BY <1>6 DEF WriteLines
    <2> QED BY <1>3, <1>4, <2>1, EffectEnds, HoldsUnknown, UnknownType DEF EffectInv
  <1> QED BY <1>2, <1>5, <1>6

LEMMA EffectDies ==
  ASSUME EffectInv, NEW e \in Editor, EditorDies(e)
  PROVE  EffectInv'
  <1>1. editor' = [editor EXCEPT ![e] = Idle] /\ file' = file /\ file \in Lines
    BY DEF EditorDies, EffectInv
  <1>2. CASE editor[e].at = "open"
    BY <1>1, <1>2, EffectEnds, HoldsUnknown, UnknownType DEF EditorDies, EffectInv
  <1>3. CASE editor[e].at # "open"
    <2>1. wanted' = wanted /\ wanted \in Settings
      BY <1>3 DEF EditorDies, EffectInv
    <2>2. (\A f \in Editor : editor'[f].at # "open") => \A f \in Editor : editor[f].at # "open"
      BY <1>1, <1>3, EffectEnds
    <2>3. \A f \in Editor : editor'[f] # Idle /\ editor'[f].alone => Holds(editor'[f].lines, wanted)
      BY <1>1, EffectEnds DEF EffectInv
    <2> QED BY <1>1, <2>1, <2>2, <2>3, EffectEnds DEF EffectInv
  <1> QED BY <1>2, <1>3

LEMMA EffectFrame == EffectInv /\ UNCHANGED edit => EffectInv'
  BY DEF edit, EffectInv

LEMMA EffectStep == EffectInv /\ [Next]_vars => EffectInv'
  <1> SUFFICES ASSUME EffectInv, [Next]_vars PROVE EffectInv'
    OBVIOUS
  <1>1. CASE UNCHANGED vars
    BY <1>1, EffectFrame DEF vars
  <1>2. ASSUME NEW e \in Editor, ReadLines(e) \/ Truncate(e) \/ WriteLines(e) \/ EditorDies(e)
        PROVE  EffectInv'
    BY <1>2, EffectRead, EffectTruncate, EffectWrite, EffectDies
  <1>3. CASE Start \/ EarlySignal \/ RequestStop \/ ClientStalls \/ Killed
    BY <1>3, EffectFrame DEF Start, EarlySignal, RequestStop, ClientStalls, Killed
  <1>4. CASE Step
    <2> SUFFICES UNCHANGED edit
      BY EffectFrame
    <2> QED BY <1>4 DEF Step, Validate, StartPool, StartUvicorn, ListenFails, Listen, OnReady,
                        Drain, Drained, Clean
  <1> QED BY <1>1, <1>2, <1>3, <1>4 DEF Next

\* For any settings, values, commands, overrides and files: what "config set" has
\* written, with nobody else at the file, is what the next start runs with.
THEOREM ServiceSetTakesEffect == Spec => SetTakesEffect
  <1> DEFINE Effect == \A k \in Key : Applies(k) => cfg'[k] = Parse(k, Strip[wanted[k]])
  <1>1. EffectInv /\ [Next]_vars => [Start => Effect]_vars
    <2> SUFFICES ASSUME EffectInv, Start, NEW k \in Key, Applies(k)
                 PROVE  cfg'[k] = Parse(k, Strip[wanted[k]])
      OBVIOUS
    <2>1. Load(file)[k] = Strip[wanted[k]]
      BY DEF EffectInv, Applies, Holds
    <2>2. cfg'[k] = Parse(k, Load(file)[k])
      BY DEF Start, Build, First, Applies
    <2> QED BY <2>1, <2>2
  <1> HIDE DEF Effect
  <1>2. Spec => [][Start => Effect]_vars
    BY <1>1, EffectInit, EffectStep, PTL DEF Spec
  <1> QED BY <1>2 DEF SetTakesEffect, Effect
=================================================================================
