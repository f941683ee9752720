---------------------------- MODULE RetrievalProofs ---------------------------
(* What TLAPS proves of Retrieval, for any runs, kinds, contents and documents. *)
EXTENDS Retrieval, SoapClientProofs, WellFoundedInduction

Bytes == Contents \cup {Garbage, NoBinary}

Types ==
  /\ mode \in [Callers -> {"download", "attrs", "saml", "samlNoID"}]
  /\ pc \in [Callers -> {"idle", "ask", "asked", "write", "exited"}]
  /\ DOMAIN exit = Callers
  /\ item \in [Callers -> Nat \ {0}]
  /\ data \in [Callers -> Bytes]
  /\ touched \in [Callers -> SUBSET Files]
  /\ saved \in [Callers -> SUBSET Files]
  /\ knew \in [Callers -> SUBSET Callers]
  /\ disk \in [Files -> Contents \cup {Absent, Torn}]
  /\ artefact \in [ArtefactKinds -> Contents \cup {NoBinary}]

(* What is on the wire, and what a run has in hand when its call is over.       *)
Wire ==
  /\ DOMAIN result = Callers
  /\ outbound \subseteq posted /\ inbound \subseteq served
  /\ \A m \in posted : m.request \in ArtefactKinds \cup {"url"}
  /\ \A s \in served : s.response.value \in Bytes
  /\ \A r \in Callers : pc[r] = "asked" => result[r].value \in Bytes

file(r) == path(item[r], data[r])

(* Where a run is, and what that says of its files: those it saved are of the   *)
(* kinds before the one it is at.                                               *)
Progress(r) ==
  /\ pc[r] = "idle" => saved[r] = {} /\ touched[r] = {}
  /\ pc[r] \in {"asked", "write"} /\ mode[r] = "download" => item[r] \in DOMAIN downloadable
  /\ pc[r] = "write" => mode[r] = "download" /\ data[r] \in Contents /\ file(r) \in touched[r]
  /\ \A f \in saved[r] : \E i \in DOMAIN downloadable : i < item[r] /\ f[1] = downloadable[i]
  /\ \A q \in knew[r] : pc[q] = "exited"

(* A run beside r opened the file.                                              *)
Beside(r, f) == \E p \in Callers : overlap(p, r) /\ f \in touched[p]

(* A file a run has just emptied is no longer empty because of a run beside it. *)
Rewritten == \A r \in Callers : pc[r] = "write" /\ disk[file(r)] # Torn => Beside(r, file(r))

Inv == Types /\ Wire /\ (\A r \in Callers : Progress(r)) /\ Rewritten /\ SavedIsWhole
-------------------------------------------------------------------------------
LEMMA PathIsFile ==
  ASSUME NEW i \in DOMAIN downloadable, NEW c \in Contents
  PROVE  path(i, c) \in Files /\ path(i, c)[1] = downloadable[i]
<1>1. downloadable[i] \in ArtefactKinds
  BY DEF ArtefactKinds
<1> QED BY <1>1 DEF path, Files

LEMMA InitInv == Init => Inv
<1> SUFFICES ASSUME Init PROVE Inv
  OBVIOUS
<1>1. Types
  BY RetrievalAssumption DEF Init, Types, Bytes
<1>2. Wire
  BY DEF Init, Wire, SoapInit
<1>3. (\A r \in Callers : Progress(r)) /\ Rewritten /\ SavedIsWhole
  BY DEF Init, Progress, Rewritten, SavedIsWhole
<1> QED BY <1>1, <1>2, <1>3 DEF Inv

(* Which variables an action of a run r leaves alone, for all runs but r.       *)
Alone(r) ==
  /\ mode' = mode
  /\ \A q \in Callers \ {r} :
       /\ pc'[q] = pc[q] /\ item'[q] = item[q] /\ data'[q] = data[q]
       /\ saved'[q] = saved[q] /\ knew'[q] = knew[q] /\ touched'[q] = touched[q]

(* A step of a run that has not ended changes nothing of where the others are.  *)
LEMMA OthersProgress ==
  ASSUME Inv, NEW r \in Callers, pc[r] # "exited", Alone(r), NEW q \in Callers \ {r}
  PROVE  Progress(q)'
<1>1. Progress(q) /\ knew[q] \subseteq Callers
  BY DEF Inv, Types
<1>2. \A p \in knew[q] : pc[p] = "exited" /\ p # r /\ pc'[p] = "exited"
  BY <1>1 DEF Progress, Alone
<1> QED BY <1>1, <1>2 DEF Progress, Alone, file, path

(* A step that opens, writes and starts nothing disturbs no file.               *)
LEMMA QuietStep ==
  ASSUME Inv, NEW r \in Callers, pc[r] # "exited", Alone(r), Types', Wire', Progress(r)',
         UNCHANGED <<disk, touched, saved, knew>>,
         pc'[r] = "write" => pc[r] = "write" /\ item'[r] = item[r] /\ data'[r] = data[r]
  PROVE  Inv'
<1>1. \A q \in Callers : Progress(q)'
  BY OthersProgress
<1>2. Rewritten'
  BY DEF Inv, Rewritten, Beside, overlap, Alone, file, path
<1>3. SavedIsWhole'
  BY DEF Inv, SavedIsWhole, whole, spoils, overlap
<1> QED BY <1>1, <1>2, <1>3 DEF Inv
-------------------------------------------------------------------------------
LEMMA StartInv ==
  ASSUME Inv, NEW r \in Callers, Start(r)
  PROVE  Inv'
<1>1. /\ pc[r] = "idle" /\ saved[r] = {} /\ touched[r] = {}
      /\ pc' = [pc EXCEPT ![r] = pc'[r]] /\ pc'[r] \in {"ask", "exited"}
      /\ DOMAIN exit' = Callers
      /\ knew' = [knew EXCEPT ![r] = {q \in Callers : pc[q] = "exited"}]
      /\ UNCHANGED <<soapVars, mode, item, data, touched, saved, disk, artefact>>
  BY DEF Inv, Types, Progress, Start, Exit, Goto
<1>2. Types' /\ Wire'
  BY <1>1 DEF Inv, Types, Wire, soapVars, callVars
<1>3. Alone(r) /\ pc[r] # "exited"
  BY <1>1 DEF Alone, Inv, Types
<1>4. Progress(r)'
  BY <1>1 DEF Inv, Types, Progress
<1>5. \A q \in Callers : Progress(q)'
  BY <1>3, <1>4, OthersProgress
<1>6. Rewritten' /\ SavedIsWhole'
  <2>1. pc'[r] # "write"
    BY <1>1
  <2>2. \A p, q \in Callers \ {r} : overlap(p, q)' <=> overlap(p, q)
    BY <1>1 DEF overlap, Inv, Types
  <2>3. \A f : \A q \in Callers \ {r} : Beside(q, f) => Beside(q, f)'
    BY <1>1, <2>2 DEF Beside
  <2>4. \A f : \A q \in Callers : spoils(q, f) => spoils(q, f)'
    BY <1>1, <2>2 DEF spoils
  <2>5. Rewritten'
    BY <1>1, <1>3, <2>1, <2>3 DEF Inv, Rewritten, Alone, file, path
  <2>6. SavedIsWhole'
    BY <1>1, <1>3, <2>4 DEF Inv, SavedIsWhole, whole, Alone
  <2> QED BY <2>5, <2>6
<1> QED BY <1>2, <1>5, <1>6 DEF Inv

LEMMA AskInv ==
  ASSUME Inv, NEW r \in Callers, Ask(r)
  PROVE  Inv'
<1>1. /\ pc[r] = "ask" /\ more(r) /\ pc' = [pc EXCEPT ![r] = "asked"]
      /\ UNCHANGED <<exit, mode, item, data, touched, saved, knew, disk, artefact>>
      /\ Call(r, wanted(r), NoBinary)
  BY DEF Ask, Goto
<1>2. mode[r] = "download" => item[r] \in DOMAIN downloadable
  BY <1>1, RetrievalAssumption DEF Inv, Types, more
<1>3. wanted(r) \in ArtefactKinds \cup {"url"}
  BY <1>2 DEF wanted, ArtefactKinds
<1>4. /\ result' = [result EXCEPT ![r] = [err |-> "none", value |-> NoBinary]]
      /\ posted' = posted \cup {[id |-> <<r, count[r] + 1>>, request |-> wanted(r)]}
      /\ outbound' = outbound \cup {[id |-> <<r, count[r] + 1>>, request |-> wanted(r)]}
      /\ UNCHANGED <<inbound, served>>
  BY <1>1 DEF Call, Begin
<1>5. Types'
  BY <1>1 DEF Inv, Types
<1>6. Wire'
  <2>1. \A q \in Callers : pc'[q] = "asked" => result'[q].value \in Bytes
    BY <1>1, <1>4 DEF Inv, Types, Wire, Bytes
  <2> QED BY <1>3, <1>4, <2>1 DEF Inv, Wire
<1>7. Alone(r) /\ pc[r] # "exited"
  BY <1>1 DEF Alone, Inv, Types
<1>8. Progress(r)' /\ pc'[r] # "write"
  BY <1>1, <1>2 DEF Inv, Types, Progress
<1> QED BY <1>1, <1>5, <1>6, <1>7, <1>8, QuietStep

(* The steps that end a run, or pass over an artefact.                          *)
LEMMA MovesInv ==
  ASSUME Inv, NEW r \in Callers, pc[r] # "exited", UNCHANGED <<soapVars, mode, touched, saved, knew, disk, artefact>>,
         DOMAIN exit' = Callers, pc' = [pc EXCEPT ![r] = pc'[r]], pc'[r] \in {"ask", "exited"},
         data' = [data EXCEPT ![r] = data'[r]], data'[r] \in Bytes,
         item' = [item EXCEPT ![r] = item'[r]], item'[r] \in {item[r], item[r] + 1}
  PROVE  Inv'
<1>1. Types'
  BY DEF Inv, Types
<1>2. Wire'
  BY DEF Inv, Types, Wire, soapVars, callVars
<1>3. Alone(r)
  BY DEF Alone, Inv, Types
<1>4. Progress(r)' /\ pc'[r] # "write"
  <2>1. \A i \in DOMAIN downloadable : i < item[r] => i < item'[r]
    BY RetrievalAssumption DEF Inv, Types
  <2>2. \A q \in knew[r] : q \in Callers /\ pc[q] = "exited" /\ q # r
    BY DEF Inv, Types, Progress
  <2> QED BY <2>1, <2>2 DEF Inv, Types, Progress
<1> QED BY <1>1, <1>2, <1>3, <1>4, QuietStep

LEMMA OpenInv ==
  ASSUME Inv, NEW r \in Callers, Open(r)
  PROVE  Inv'
<1> DEFINE c == result[r].value
<1>0. PICK f : f = path(item[r], c)
  OBVIOUS
<1>1. /\ pc[r] = "asked" /\ mode[r] = "download" /\ c \in Contents
      /\ item[r] \in DOMAIN downloadable
      /\ data' = [data EXCEPT ![r] = c]
      /\ UNCHANGED <<soapVars, mode, item, saved, knew, artefact>>
  BY DEF Open, usable, Inv, Types, Wire, Bytes, Progress
<1>2. f \in Files /\ f[1] = downloadable[item[r]]
  BY <1>0, <1>1, PathIsFile
<1>3. CASE Exit(r, "writefailed") /\ UNCHANGED <<disk, touched>>
  BY <1>1, <1>3, MovesInv DEF Exit, Inv, Types, Bytes
<1>4. CASE /\ disk' = [disk EXCEPT ![f] = Torn]
           /\ touched' = [touched EXCEPT ![r] = @ \cup {f}]
           /\ Goto(r, "write")
  <2>1. Types'
    BY <1>1, <1>2, <1>4 DEF Inv, Types, Goto, Bytes
  <2>2. Wire'
    BY <1>1, <1>4 DEF Inv, Types, Wire, Goto, soapVars, callVars
  <2>3. Alone(r) /\ pc[r] # "exited"
    BY <1>1, <1>4 DEF Alone, Inv, Types, Goto
  <2>4. file(r)' = f /\ pc'[r] = "write" /\ f \in touched'[r] /\ disk'[f] = Torn
    BY <1>0, <1>1, <1>2, <1>4 DEF Inv, Types, Goto, file, path
  <2>5. Progress(r)'
    <3>1. \A q \in knew[r] : q \in Callers /\ pc[q] = "exited" /\ q # r
      BY <1>1 DEF Inv, Types, Progress
    <3> QED BY <1>1, <1>4, <2>4, <3>1 DEF Inv, Types, Progress, Goto
  <2>6. f \notin saved[r]
    BY <1>1, <1>2, RetrievalAssumption DEF Inv, Types, Progress
  <2>7. \A q \in Callers : r \notin knew[q] /\ (pc[q] = "write" => q \notin knew[r])
    BY <1>1 DEF Inv, Progress
  <2>8. \A g : \A q \in Callers : (Beside(q, g) => Beside(q, g)') /\ (spoils(q, g) => spoils(q, g)')
    BY <1>1, <1>4 DEF Inv, Types, Beside, spoils, overlap
  <2>9. Rewritten'
    <3>1. ASSUME NEW q \in Callers \ {r}
          PROVE  (pc[q] = "write" /\ disk[file(q)] # Torn => Beside(q, file(q)))'
      <4>1. file(q)' = file(q) /\ pc'[q] = pc[q]
        BY <2>3 DEF Alone, file, path
      <4>2. pc[q] = "write" => file(q) \in Files
        BY PathIsFile DEF Inv, Types, Progress, file
      <4>3. pc[q] = "write" /\ file(q) # f => disk'[file(q)] = disk[file(q)]
        BY <1>4, <4>2 DEF Inv, Types
      <4>4. pc[q] = "write" /\ disk'[file(q)] # Torn => Beside(q, file(q))
        BY <4>2, <4>3, <2>4 DEF Inv, Rewritten
      <4> QED BY <4>1, <4>4, <2>8
    <3> QED BY <2>4, <3>1 DEF Rewritten
  <2>10. SavedIsWhole'
    <3>1. spoils(r, f)'
      BY <1>1, <2>4, <2>6 DEF spoils
    <3>2. ASSUME NEW q \in Callers, NEW g \in saved'[q]
          PROVE  whole(g)' \/ \E p \in Callers \ knew'[q] : spoils(p, g)'
      <4>1. g \in saved[q] /\ g \in Files /\ knew'[q] = knew[q]
        BY <1>1 DEF Inv, Types
      <4>2. CASE g = f
        BY <1>1, <2>7, <3>1, <4>1, <4>2
      <4>3. CASE g # f
        <5>1. disk'[g] = disk[g]
          BY <1>4, <4>1, <4>3 DEF Inv, Types
        <5> QED BY <2>8, <4>1, <5>1 DEF Inv, SavedIsWhole, whole
      <4> QED BY <4>2, <4>3
    <3> QED BY <3>2 DEF SavedIsWhole
  <2> QED BY <2>1, <2>2, <2>3, <2>5, <2>9, <2>10, OthersProgress DEF Inv
<1> QED BY <1>0, <1>3, <1>4 DEF Open

LEMMA WriteInv ==
  ASSUME Inv, NEW r \in Callers, Write(r)
  PROVE  Inv'
<1>0. PICK f : f = file(r)
  OBVIOUS
<1>1. /\ pc[r] = "write" /\ mode[r] = "download" /\ data[r] \in Contents
      /\ item[r] \in DOMAIN downloadable /\ f \in touched[r] /\ f \in Files
      /\ f[1] = downloadable[item[r]]
      /\ pc' = [pc EXCEPT ![r] = "ask"] /\ item' = [item EXCEPT ![r] = @ + 1]
      /\ saved' = [saved EXCEPT ![r] = @ \cup {f}]
      /\ UNCHANGED <<soapVars, exit, mode, data, touched, knew, artefact>>
  BY <1>0, PathIsFile DEF Write, Goto, Inv, Progress, file
<1>2. PICK left : /\ disk' = [disk EXCEPT ![f] = left]
                  /\ \/ left = data[r]
                     \/ left = Torn /\ disk[f] # Torn
  BY <1>0 DEF Write, file
<1>3. Types'
  BY <1>1, <1>2 DEF Inv, Types
<1>4. Wire'
  BY <1>1 DEF Inv, Types, Wire, soapVars, callVars
<1>5. Alone(r) /\ pc[r] # "exited"
  BY <1>1 DEF Alone, Inv, Types
<1>6. Progress(r)'
  <2>1. item[r] \in Nat /\ item'[r] = item[r] + 1 /\ DOMAIN downloadable \subseteq Nat
    BY <1>1, RetrievalAssumption DEF Inv, Types
  <2>2. \A g \in saved'[r] : \E i \in DOMAIN downloadable : i < item'[r] /\ g[1] = downloadable[i]
    BY <1>1, <2>1 DEF Inv, Types, Progress
  <2>3. \A q \in knew[r] : q \in Callers /\ pc[q] = "exited" /\ q # r
    BY <1>1 DEF Inv, Types, Progress
  <2> QED BY <1>1, <2>2, <2>3 DEF Inv, Types, Progress
<1>7. \A q \in Callers : r \notin knew[q] /\ (pc[q] = "write" => q \notin knew[r])
  BY <1>1 DEF Inv, Progress
<1>8. \A g : \A q \in Callers : Beside(q, g)' <=> Beside(q, g)
  BY <1>1 DEF Beside, overlap
<1>9. \A g : \A q \in Callers : g # f /\ spoils(q, g) => spoils(q, g)'
  BY <1>1 DEF spoils, overlap, Inv, Types
<1>10. Rewritten'
  <2>1. ASSUME NEW q \in Callers \ {r}
        PROVE  (pc[q] = "write" /\ disk[file(q)] # Torn => Beside(q, file(q)))'
    <3>1. file(q)' = file(q) /\ pc'[q] = pc[q]
      BY <1>5 DEF Alone, file, path
    <3>2. pc[q] = "write" => file(q) \in Files
      BY PathIsFile DEF Inv, Types, Progress, file
    <3>3. pc[q] = "write" /\ file(q) # f => disk'[file(q)] = disk[file(q)]
      BY <1>2, <3>2 DEF Inv, Types
    <3>4. pc[q] = "write" /\ file(q) = f => Beside(q, f)
      BY <1>1, <1>7 DEF Beside, overlap
    <3>5. pc[q] = "write" /\ disk'[file(q)] # Torn => Beside(q, file(q))
      BY <3>2, <3>3, <3>4 DEF Inv, Rewritten
    <3> QED BY <3>1, <3>5, <1>8
  <2>2. pc'[r] # "write"
    BY <1>1 DEF Inv, Types
  <2> QED BY <2>1, <2>2 DEF Rewritten
<1>11. SavedIsWhole'
  <2>1. whole(f)' \/ spoils(r, f)'
    <3>1. CASE left = data[r]
      BY <1>1, <1>2, <3>1 DEF whole, Inv, Types
    <3>2. CASE disk[f] # Torn
      <4>1. Beside(r, f)'
        BY <1>0, <1>1, <1>8, <3>2 DEF Inv, Rewritten
      <4> QED BY <1>1, <4>1 DEF spoils, Beside
    <3> QED BY <1>2, <3>1, <3>2
  <2>2. ASSUME NEW q \in Callers, NEW g \in saved'[q]
        PROVE  whole(g)' \/ \E p \in Callers \ knew'[q] : spoils(p, g)'
    <3>1. CASE g = f
      BY <1>1, <1>7, <2>1, <3>1
    <3>2. CASE g # f
      <4>1. g \in saved[q] /\ g \in Files
        BY <1>1, <3>2 DEF Inv, Types
      <4>2. disk'[g] = disk[g]
        BY <1>2, <4>1, <3>2 DEF Inv, Types
      <4> QED BY <1>1, <1>9, <3>2, <4>1, <4>2 DEF Inv, SavedIsWhole, whole
    <3> QED BY <3>1, <3>2
  <2> QED BY <2>2 DEF SavedIsWhole
<1> QED BY <1>3, <1>4, <1>5, <1>6, <1>10, <1>11, OthersProgress DEF Inv

LEMMA CallEndsInv ==
  ASSUME Inv, NEW r \in Callers, CallEnds(r)
  PROVE  Inv'
<1>1. /\ UNCHANGED <<mode, pc, exit, item, data, touched, saved, knew, disk, artefact>>
      /\ UNCHANGED <<outbound, posted, served>> /\ inbound' \subseteq inbound
      /\ pc[r] # "exited"
  BY DEF CallEnds, runVars, Active, Return, Fail
<1>2. PICK answer : result' = [result EXCEPT ![r] = answer]
                    /\ (pc[r] = "asked" => answer.value \in Bytes)
  <2>1. CASE Return(r)
    <3>1. PICK m \in inbound : result' = [result EXCEPT ![r] = decodeResponse(m.response, result[r].value)]
      BY <2>1 DEF Return, Finish
    <3>2. m.response.value \in Bytes
      BY <3>1 DEF Inv, Wire
    <3>3. decodeResponse(m.response, result[r].value).value \in {m.response.value, result[r].value}
      BY DEF decodeResponse
    <3> QED BY <3>1, <3>2, <3>3 DEF Inv, Wire
  <2>2. CASE Fail(r)
    <3> DEFINE failed == [err |-> "transport", value |-> result[r].value]
    <3>1. result' = [result EXCEPT ![r] = failed]
      BY <2>2 DEF Fail, Finish
    <3>2. pc[r] = "asked" => failed.value \in Bytes
      BY DEF Inv, Wire
    <3> QED BY <3>1, <3>2
  <2> QED BY <2>1, <2>2 DEF CallEnds
<1>3. Types'
  BY <1>1 DEF Inv, Types
<1>4. Wire'
  BY <1>1, <1>2 DEF Inv, Wire
<1>5. Alone(r)
  BY <1>1 DEF Alone
<1>6. Progress(r)'
  BY <1>1 DEF Inv, Progress, file, path
<1> QED BY <1>1, <1>3, <1>4, <1>5, <1>6, QuietStep

(* The portal touches nothing a run has.                                        *)
LEMMA PortalInv ==
  ASSUME Inv, UNCHANGED <<mode, pc, exit, item, data, touched, saved, knew, disk>>, Types', Wire'
  PROVE  Inv'
<1>1. \A r \in Callers : Progress(r)'
  BY DEF Inv, Progress, file, path
<1>2. Rewritten' /\ SavedIsWhole'
  BY DEF Inv, Rewritten, Beside, overlap, file, path, SavedIsWhole, whole, spoils
<1> QED BY <1>1, <1>2 DEF Inv

LEMMA ServeInv ==
  ASSUME Inv, NEW m \in outbound, ServeRequest(m)
  PROVE  Inv'
<1>1. UNCHANGED <<mode, pc, exit, item, data, touched, saved, knew, disk, artefact>>
  BY DEF ServeRequest, runVars
<1>2. m.request \in ArtefactKinds \cup {"url"}
  BY DEF Inv, Wire
<1>3. offers(m.request) \subseteq Bytes
  BY <1>2 DEF offers, Inv, Types, Bytes
<1>4. PICK response : response.value \in Bytes /\ Serve(m, response)
  BY <1>3 DEF ServeRequest, Bytes
<1>5. Types'
  BY <1>1 DEF Inv, Types
<1>6. Wire'
  BY <1>1, <1>4 DEF Inv, Wire, Serve, callVars
<1> QED BY <1>1, <1>5, <1>6, PortalInv

LEMMA PublishInv ==
  ASSUME Inv, NEW k \in ArtefactKinds, Publish(k)
  PROVE  Inv'
<1>1. UNCHANGED <<soapVars, mode, pc, exit, item, data, touched, saved, knew, disk>>
  BY DEF Publish, runVars
<1>2. Types'
  BY <1>1 DEF Inv, Types, Publish
<1>3. Wire'
  BY <1>1 DEF Inv, Wire, soapVars, callVars
<1> QED BY <1>1, <1>2, <1>3, PortalInv

LEMMA StepInv ==
  ASSUME Inv, NEW r \in Callers, Step(r) \/ Kill(r)
  PROVE  Inv'
<1>1. CASE Skip(r)
  BY <1>1, MovesInv DEF Skip, Goto, Inv, Types
<1>2. CASE Finished(r) \/ WriteFails(r) \/ Kill(r)
  BY <1>2, MovesInv DEF Finished, WriteFails, Kill, Active, Exit, Inv, Types
<1>3. CASE showSamlURL(r) \/ showAttributes(r)
  BY <1>3, MovesInv DEF showSamlURL, showAttributes, Exit, Inv, Types, Wire
<1> QED BY <1>1, <1>2, <1>3, AskInv, OpenInv, WriteInv DEF Step

LEMMA NextInv ==
  ASSUME Inv, [Next]_vars
  PROVE  Inv'
<1>1. CASE UNCHANGED vars
  <2>1. UNCHANGED <<soapVars, mode, pc, exit, item, data, touched, saved, knew, disk, artefact>>
    BY <1>1 DEF vars, runVars
  <2>2. Types' /\ Wire'
    BY <2>1 DEF Inv, Types, Wire, soapVars, callVars
  <2> QED BY <2>1, <2>2, PortalInv
<1> QED BY <1>1, StartInv, StepInv, CallEndsInv, ServeInv, PublishInv DEF Next

LEMMA Invariance == Spec => []Inv
<1> QED BY InitInv, NextInv, PTL DEF Spec
-------------------------------------------------------------------------------
(* What a run said it wrote is whole on disk unless a run beside it opened the  *)
(* file, for any runs and any kills (main.go:301).                              *)
THEOREM SavedWhole == Spec => []SavedIsWhole
<1>1. Inv => SavedIsWhole
  BY DEF Inv
<1> QED BY <1>1, Invariance, PTL
-------------------------------------------------------------------------------
(* A set of indices has a greatest one.                                         *)
LEMMA GreatestIndex ==
  ASSUME NEW n \in Nat, NEW S \in SUBSET (1 .. n), S # {}
  PROVE  \E i \in S : \A j \in S : j <= i
<1> DEFINE T == {n - k : k \in S}
<1>1. T \subseteq Nat /\ T # {}
  <2>1. \A k \in S : n - k \in Nat
    OBVIOUS
  <2> QED BY <2>1
<1>2. PICK t \in T : \A u \in T : ~ (<<u, t>> \in OpToRel(<, Nat))
  BY <1>1, NatLessThanWellFounded, WFMin
<1>3. PICK i \in S : t = n - i
  OBVIOUS
<1>4. ASSUME NEW j \in S PROVE j <= i
  <2>1. n - j \in T /\ n - j \in Nat /\ t \in Nat /\ i \in Int /\ j \in Int
    BY <1>3
  <2>2. ~ (n - j < t)
    BY <1>2, <2>1 DEF OpToRel
  <2> QED BY <1>3, <2>1, <2>2
<1> QED BY <1>4

(* What the readings of an attribute come to.                                   *)
LEMMA Readings ==
  ASSUME NEW v \in Attribute
  PROVE  /\ \A w : unquote(v) = plain(w) <=> named(v, w)
         /\ isTrue(v) <=> yes(v, 1)
         /\ isTrue(unquote(v)) <=> yes(v, 2)
<1>1. ASSUME NEW u \in Attribute
      PROVE  /\ u = [word |-> u.word, quotes |-> u.quotes] /\ u.quotes \in Nat
             /\ unquote(u) = [word |-> u.word, quotes |-> IF u.quotes = 0 THEN 0 ELSE u.quotes - 1]
             /\ unquote(u) \in Attribute
             /\ unquote(u).word = u.word
             /\ unquote(u).quotes = IF u.quotes = 0 THEN 0 ELSE u.quotes - 1
  BY DEF Attribute, unquote
<1>2. \A w : unquote(v) = plain(w) <=> named(v, w)
  BY <1>1 DEF plain, named
<1>3. isTrue(v) <=> yes(v, 1)
  BY <1>1 DEF isTrue, yes
<1>4. isTrue(unquote(v)) <=> yes(v, 2)
  <2> DEFINE u == unquote(v)
  <2>1. u \in Attribute /\ u.word = v.word /\ u.quotes = IF v.quotes = 0 THEN 0 ELSE v.quotes - 1
    BY <1>1
  <2> HIDE DEF u
  <2>2. unquote(u).quotes = IF u.quotes = 0 THEN 0 ELSE u.quotes - 1
    BY <1>1, <2>1
  <2>3. v.quotes \in Nat
    BY <1>1
  <2>4. isTrue(u) <=> yes(v, 2)
    BY <2>1, <2>2, <2>3 DEF isTrue, yes
  <2> QED BY <2>4 DEF u
<1> QED BY <1>2, <1>3, <1>4

LEMMA ElementType ==
  ASSUME NEW S, NEW s \in Seq(S), NEW i \in DOMAIN s
  PROVE  s[i] \in S /\ i \in Nat
OBVIOUS

Results == Seq([code : Attribute, value : Attribute])

LEMMA ResultType ==
  ASSUME NEW results \in Results, NEW i \in DOMAIN results
  PROVE  results[i].code \in Attribute /\ results[i].value \in Attribute /\ i \in Nat
<1>1. results[i] \in [code : Attribute, value : Attribute] /\ i \in Nat
  BY ElementType DEF Results
<1> QED BY <1>1

(* The map of results, which each result of a code overwrites, holds the last.  *)
LEMMA RawIsLast ==
  ASSUME NEW results \in Results, NEW code
  PROVE  IF \E i \in DOMAIN results : named(results[i].code, code)
         THEN \E i \in DOMAIN results :
                /\ named(results[i].code, code)
                /\ \A j \in DOMAIN results : j > i => ~named(results[j].code, code)
                /\ raw(results, code) = unquote(results[i].value)
         ELSE raw(results, code) = plain(Empty)
<1> DEFINE S == occurrences(results, code)
<1>1. \A i \in DOMAIN results : results[i].code \in Attribute
  BY ResultType
<1>2. S = {i \in DOMAIN results : named(results[i].code, code)}
  BY <1>1, Readings DEF occurrences
<1>3. CASE S = {}
  BY <1>2, <1>3 DEF raw
<1>4. CASE S # {}
  <2> DEFINE last == CHOOSE i \in S : \A j \in S : j <= i
  <2>1. S \in SUBSET (1 .. Len(results)) /\ Len(results) \in Nat
    BY <1>2 DEF Results
  <2>2. \E i \in S : \A j \in S : j <= i
    BY <2>1, <1>4, GreatestIndex
  <2>3. last \in S /\ \A j \in S : j <= last
    BY <2>2
  <2>4. raw(results, code) = unquote(results[last].value)
    BY <1>4 DEF raw
  <2> HIDE DEF last
  <2>5. \A j \in DOMAIN results : j > last => j \notin S
    <3>1. last \in Nat /\ S \subseteq Nat
      BY <2>1, <2>3
    <3> HIDE DEF S, last
    <3>2. ASSUME NEW j \in S, j > last PROVE FALSE
      <4>1. j \in Nat /\ j <= last
        BY <2>3, <3>1
      <4> QED BY <3>1, <3>2, <4>1
    <3> QED BY <3>2
  <2> QED BY <1>2, <2>3, <2>4, <2>5
<1> QED BY <1>3, <1>4

(* A test result is what the document last says of its code.                    *)
LEMMA TestHolds ==
  ASSUME NEW doc, doc.results \in Results, NEW test
  PROVE  isTrue(raw(doc.results, test)) <=> holds(doc, test)
<1>1. CASE ~\E i \in DOMAIN doc.results : named(doc.results[i].code, test)
  <2>1. ~isTrue(plain(Empty))
    BY DEF isTrue, plain, Empty, unquote
  <2> QED BY <1>1, <2>1, RawIsLast DEF holds
<1>2. CASE \E i \in DOMAIN doc.results : named(doc.results[i].code, test)
  <2>1. PICK i \in DOMAIN doc.results :
          /\ named(doc.results[i].code, test)
          /\ \A j \in DOMAIN doc.results : j > i => ~named(doc.results[j].code, test)
          /\ raw(doc.results, test) = unquote(doc.results[i].value)
    BY <1>2, RawIsLast
  <2>2. \A j \in DOMAIN doc.results : j \in Nat /\ doc.results[j].value \in Attribute
    BY ResultType
  <2>3. isTrue(raw(doc.results, test)) <=> yes(doc.results[i].value, 2)
    BY <2>1, <2>2, Readings
  <2>4. \A j \in DOMAIN doc.results : named(doc.results[j].code, test) /\ lastOf(doc, j) => j = i
    <3>1. \A j \in DOMAIN doc.results : named(doc.results[j].code, test) => ~(j > i)
      BY <2>1
    <3>2. \A j \in DOMAIN doc.results : named(doc.results[j].code, test) /\ lastOf(doc, j) => ~(i > j)
      BY <2>1 DEF lastOf, named
    <3> QED BY <2>2, <3>1, <3>2
  <2>5. lastOf(doc, i)
    BY <2>1 DEF lastOf, named
  <2> QED BY <2>1, <2>3, <2>4, <2>5 DEF holds
<1> QED BY <1>1, <1>2

(* The three routes through the checks lead to the broken ones.                 *)
LEMMA ChecksAgree ==
  ASSUME NEW doc, doc.checks \in Seq([code : Attribute, blocker : Attribute, result : Attribute])
  PROVE  LET cert == ParseIdentityCertificate(doc)
         IN  /\ (\A i \in DOMAIN cert.Checks : cert.Checks[i].Blocking => checkPassed(cert.Checks[i]))
                  <=> broken(doc) = {}
             /\ {check.Code : check \in FailedChecks(cert)} = {unquote(doc.checks[i].code) : i \in broken(doc)}
<1> DEFINE checks == ParseIdentityCertificate(doc).Checks
<1>1. checks = [i \in DOMAIN doc.checks |-> IdentityCheckOf(doc.checks[i])]
  BY DEF ParseIdentityCertificate
<1>2. \A i \in DOMAIN doc.checks :
        /\ doc.checks[i].code \in Attribute /\ doc.checks[i].blocker \in Attribute
        /\ doc.checks[i].result \in Attribute
  <2> SUFFICES ASSUME NEW i \in DOMAIN doc.checks
               PROVE  /\ doc.checks[i].code \in Attribute /\ doc.checks[i].blocker \in Attribute
                      /\ doc.checks[i].result \in Attribute
    OBVIOUS
  <2>1. doc.checks[i] \in [code : Attribute, blocker : Attribute, result : Attribute]
    BY ElementType
  <2> QED BY <2>1
<1>3. ASSUME NEW i \in DOMAIN doc.checks
      PROVE  /\ checks[i].Code = unquote(doc.checks[i].code)
             /\ checks[i].Blocking <=> yes(doc.checks[i].blocker, 1)
             /\ checkPassed(checks[i]) <=> named(doc.checks[i].result, "ok")
  <2>1. checks[i] = IdentityCheckOf(doc.checks[i])
    BY <1>1
  <2>2. /\ checks[i].Code = unquote(doc.checks[i].code)
        /\ checks[i].Blocking = isTrue(doc.checks[i].blocker)
        /\ checks[i].Result = unquote(doc.checks[i].result)
    BY <2>1 DEF IdentityCheckOf
  <2> HIDE DEF checks
  <2>3. checkPassed(checks[i]) <=> named(doc.checks[i].result, "ok")
    BY <1>2, <2>2, Readings DEF checkPassed
  <2> QED BY <1>2, <2>2, <2>3, Readings
<1>4. DOMAIN checks = DOMAIN doc.checks
  BY <1>1
<1>5. broken(doc) = {i \in DOMAIN checks : checks[i].Blocking /\ ~checkPassed(checks[i])}
  BY <1>3, <1>4 DEF broken
<1>6. FailedChecks(ParseIdentityCertificate(doc)) = {checks[i] : i \in broken(doc)}
  BY <1>5 DEF FailedChecks
<1>7. broken(doc) \subseteq DOMAIN doc.checks
  BY DEF broken
<1> HIDE DEF checks
<1>8. {check.Code : check \in {checks[i] : i \in broken(doc)}} = {unquote(doc.checks[i].code) : i \in broken(doc)}
  BY <1>3, <1>7
<1>9. (\A i \in DOMAIN checks : checks[i].Blocking => checkPassed(checks[i])) <=> broken(doc) = {}
  BY <1>5
<1> QED BY <1>6, <1>8, <1>9 DEF checks

(* The verdict of a parsed document, whatever is in it.                         *)
LEMMA VerdictOf ==
  ASSUME NEW doc \in Documents \ {Missing}
  PROVE  LET told_ == verdict(ParseIdentityCertificate(doc))
         IN  /\ told_.said = "passed" <=> holds(doc, GlobalResult) /\ broken(doc) = {}
             /\ told_.codes # {} <=> told_.said = "failed"
             /\ told_.said = "failed" =>
                  told_.codes = {unquote(doc.checks[i].code) : i \in broken(doc)}
             /\ told_.said = "global negative" => ~holds(doc, GlobalResult)
<1> DEFINE cert == ParseIdentityCertificate(doc)
           codes == {unquote(doc.checks[i].code) : i \in broken(doc)}
<1>1. /\ doc.results \in Results
      /\ doc.checks \in Seq([code : Attribute, blocker : Attribute, result : Attribute])
  BY RetrievalAssumption DEF Results
<1>2. cert.Verification[GlobalResult] <=> holds(doc, GlobalResult)
  <2>1. cert.Verification[GlobalResult] = isTrue(raw(doc.results, GlobalResult))
    BY CertificateAssumption DEF ParseIdentityCertificate, identityVerificationFrom
  <2> QED BY <1>1, <2>1, TestHolds
<1>3. Passed(cert) <=> holds(doc, GlobalResult) /\ broken(doc) = {}
  BY <1>1, <1>2, ChecksAgree DEF Passed
<1>4. {check.Code : check \in FailedChecks(cert)} = codes /\ (codes = {} <=> broken(doc) = {})
  BY <1>1, ChecksAgree
<1> HIDE DEF cert, codes
<1>5. verdict(cert) = IF Passed(cert) THEN [said |-> "passed", codes |-> {}]
                      ELSE IF codes = {} THEN [said |-> "global negative", codes |-> {}]
                      ELSE [said |-> "failed", codes |-> codes]
  BY <1>4 DEF verdict
<1>6. /\ verdict(cert).said = "passed" <=> holds(doc, GlobalResult) /\ broken(doc) = {}
      /\ verdict(cert).codes # {} <=> verdict(cert).said = "failed"
      /\ verdict(cert).said = "failed" => verdict(cert).codes = codes
      /\ verdict(cert).said = "global negative" => ~holds(doc, GlobalResult)
  <2>1. CASE Passed(cert)
    BY <1>3, <1>5, <2>1
  <2>2. CASE ~Passed(cert) /\ codes = {}
    <3>1. verdict(cert).said = "global negative" /\ verdict(cert).codes = {}
      <4>1. verdict(cert) = [said |-> "global negative", codes |-> {}]
        <5>1. ~Passed(cert) /\ (codes = {}) = TRUE
          BY <2>2
        <5> QED BY ONLY <1>5, <5>1
      <4>2. \A set : [said |-> "global negative", codes |-> set].said = "global negative"
                    /\ [said |-> "global negative", codes |-> set].codes = set
        OBVIOUS
      <4> QED BY <4>1, <4>2, Zenon
    <3>2. "global negative" # "passed" /\ "global negative" # "failed"
      OBVIOUS
    <3> QED BY <1>3, <1>4, <2>2, <3>1, <3>2, Zenon
  <2>3. CASE ~Passed(cert) /\ codes # {}
    <3>1. verdict(cert).said = "failed" /\ verdict(cert).codes = codes
      <4>1. verdict(cert) = [said |-> "failed", codes |-> codes]
        BY <1>5, <2>3, Zenon
      <4> QED BY <4>1
    <3>2. "failed" # "passed" /\ "failed" # "global negative"
      OBVIOUS
    <3> QED BY <1>3, <1>4, <2>3, <3>1, <3>2, Zenon
  <2> QED BY <2>1, <2>2, <2>3
<1> QED BY <1>6 DEF cert, codes

(* What a run printed, it printed of the document it holds.                     *)
Told ==
  /\ DOMAIN told = Callers /\ DOMAIN certificate = Callers
  /\ \A r \in Callers :
       IF told[r] = Missing THEN certificate[r] = Missing
       ELSE /\ certificate[r] \in Documents \ {Missing}
            /\ told[r] = printed(ParseIdentityCertificate(certificate[r]))

LEMMA InitTold == Init => Told
BY DEF Init, Told

LEMMA NextTold ==
  ASSUME Told, [Next]_vars
  PROVE  Told'
<1>1. CASE UNCHANGED shownVars
  BY <1>1 DEF Told, shownVars
<1>2. ASSUME NEW r \in Callers, showAttributes(r) PROVE Told'
  <2>1. CASE UNCHANGED shownVars
    BY <1>1, <2>1
  <2>2. CASE \E doc \in Documents :
               /\ unmarshals(doc)
               /\ certificate' = [certificate EXCEPT ![r] = doc]
               /\ told' = [told EXCEPT ![r] = printed(ParseIdentityCertificate(doc))]
    BY <2>2, PrintedAssumption DEF Told, unmarshals
  <2> QED BY <1>2, <2>1, <2>2 DEF showAttributes
<1>3. Next => UNCHANGED shownVars \/ \E r \in Callers : showAttributes(r)
  BY DEF Next, Step, Start, Ask, Skip, Open, Write, WriteFails, Finished, showSamlURL, CallEnds, Kill,
         ServeRequest, Publish, runVars
<1> QED BY <1>1, <1>2, <1>3 DEF vars, runVars

(* "SUPERADA" is printed of the documents that say so, and the failed checks    *)
(* named are the document's, for any certificate (main.go:243, identity.go:263).*)
THEOREM VerdictDocumented == Spec => []VerdictIsDocumented
<1>1. Told => VerdictIsDocumented
  <2> SUFFICES ASSUME Told, NEW r \in Callers, told[r] # Missing
               PROVE  LET doc == certificate[r] said == told[r].verdict.said
                      IN  /\ said = "passed" <=> holds(doc, GlobalResult) /\ broken(doc) = {}
                          /\ told[r].verdict.codes # {} <=> said = "failed"
                          /\ said = "failed" =>
                               told[r].verdict.codes = {unquote(doc.checks[i].code) : i \in broken(doc)}
                          /\ said = "global negative" => ~holds(doc, GlobalResult)
    BY DEF VerdictIsDocumented
  <2>1. told[r].verdict = verdict(ParseIdentityCertificate(certificate[r]))
    BY DEF Told, printed
  <2>2. certificate[r] \in Documents \ {Missing}
    BY DEF Told
  <2> QED BY <2>1, <2>2, VerdictOf
<1> QED BY <1>1, InitTold, NextTold, PTL DEF Spec
-------------------------------------------------------------------------------
(* The last value of a code, when it is printed as an attribute.                *)
LEMMA AttributeHolds ==
  ASSUME NEW doc, doc.results \in Results, NEW code
  PROVE  \/ raw(doc.results, code) = plain(Empty)
         \/ \E i \in DOMAIN doc.results :
              /\ named(doc.results[i].code, code) /\ lastOf(doc, i)
              /\ raw(doc.results, code).word = doc.results[i].value.word
<1>1. CASE ~\E i \in DOMAIN doc.results : named(doc.results[i].code, code)
  BY <1>1, RawIsLast
<1>2. CASE \E i \in DOMAIN doc.results : named(doc.results[i].code, code)
  <2>1. PICK i \in DOMAIN doc.results :
          /\ named(doc.results[i].code, code)
          /\ \A j \in DOMAIN doc.results : j > i => ~named(doc.results[j].code, code)
          /\ raw(doc.results, code) = unquote(doc.results[i].value)
    BY <1>2, RawIsLast
  <2>2. lastOf(doc, i)
    BY <2>1 DEF lastOf, named
  <2>3. \A v \in Attribute : unquote(v).word = v.word
    BY DEF Attribute, unquote
  <2>4. raw(doc.results, code).word = doc.results[i].value.word
    BY <2>1, <2>3, ResultType
  <2> QED BY <2>1, <2>2, <2>4
<1> QED BY <1>1, <1>2

(* A digest that an artefact declares is one of its text or of its bytes.       *)
LEMMA DigestVerifies ==
  ASSUME NEW kind, NEW element \in Element
  PROVE  VerifyHash(ArtifactOf(kind, element)) <=> intact(element)
<1> DEFINE a == ArtifactOf(kind, element)
           text == element.base64
           hash == element.hash
           off == IF text.quotes = 0 THEN 0 ELSE text.quotes - 1
<1>1. /\ text.quotes \in Nat /\ hash.quotes \in Nat
      /\ text = [word |-> text.word, quotes |-> text.quotes]
      /\ hash = [word |-> hash.word, quotes |-> hash.quotes]
  BY DEF Element, Attribute
<1>2. /\ a.Base64.word = text.word /\ a.Base64.quotes = off
      /\ a.Hash = [word |-> hash.word, quotes |-> IF hash.quotes = 0 THEN 0 ELSE hash.quotes - 1]
  BY <1>1 DEF ArtifactOf, unquote
<1> HIDE DEF a
<1>3. \A what : declares(a, what) <=> hash.quotes <= 1 /\ hash.word = what
  BY <1>1, <1>2 DEF declares, plain
<1>4. overText(a) <=> hash.quotes <= 1 /\ hash.word = <<"text", text.word, off>>
  BY <1>2, <1>3 DEF overText, digest
<1>5. overBytes(a) <=> /\ text.quotes <= 1 /\ Decoded[text.word] # Missing
                       /\ hash.quotes <= 1 /\ hash.word = <<"bytes", Decoded[text.word], 0>>
  <2>1. CASE text.quotes <= 1
    <3>1. Decode(a) = Decoded[text.word]
      BY <1>1, <1>2, <2>1 DEF Decode
    <3> QED BY <1>3, <2>1, <3>1 DEF overBytes, digest, plain
  <2>2. CASE ~(text.quotes <= 1)
    <3>1. Decode(a) = Missing
      BY <1>1, <1>2, <2>2 DEF Decode
    <3> QED BY <2>2, <3>1 DEF overBytes
  <2> QED BY <2>1, <2>2
<1>6. overText(a) \/ overBytes(a) => ~declares(a, NoHash)
  <2>1. \A v, w, n : <<"text", v, n>> # NoHash /\ <<"bytes", w, n>> # NoHash
    BY DEF NoHash, digest
  <2> QED BY <1>3, <1>4, <1>5, <2>1
<1> QED BY <1>4, <1>5, <1>6 DEF VerifyHash, intact, a

(* What is printed of a parsed document, item by item.                          *)
LEMMA PrintedOf ==
  ASSUME NEW doc \in Documents \ {Missing}
  PROVE  LET shown == printed(ParseIdentityCertificate(doc))
         IN  /\ \A t \in Tests : shown.tests[t] <=> holds(doc, t)
             /\ \A c \in AttributeCodes :
                  \/ shown.attributes[c] = plain(Empty)
                  \/ \E i \in DOMAIN doc.results :
                       /\ named(doc.results[i].code, c) /\ lastOf(doc, i)
                       /\ shown.attributes[c].word = doc.results[i].value.word
             /\ DOMAIN shown.consents = DOMAIN doc.items
             /\ \A i \in DOMAIN doc.items : answered(shown.consents[i], doc.items[i])
             /\ \A a \in shown.artifacts :
                  a.verified <=> intact(IF a.Kind = "nfc-signed-result" THEN doc.nfcSigned
                                        ELSE doc.nfcDeclaration)
<1> DEFINE cert == ParseIdentityCertificate(doc)
           shown == printed(cert)
<1>1. /\ doc.results \in Results
      /\ doc.items \in Seq([id : Attribute, value : Attribute, mandatory : Attribute])
      /\ {doc.nfcSigned, doc.nfcDeclaration} \ {Missing} \subseteq Element
  BY RetrievalAssumption DEF Results
<1>2. \A t \in Tests : shown.tests[t] <=> holds(doc, t)
  <2>1. \A t \in Tests : shown.tests[t] = isTrue(raw(doc.results, t))
    BY DEF printed, ParseIdentityCertificate, identityVerificationFrom
  <2> QED BY <1>1, <2>1, TestHolds
<1>3. \A c \in AttributeCodes : shown.attributes[c] = raw(doc.results, c)
  BY DEF printed, ParseIdentityCertificate, identityAttributesFrom
<1>4. ASSUME NEW i \in DOMAIN doc.items
      PROVE  answered(shown.consents[i], doc.items[i])
  <2>1. /\ shown.consents[i].ID = unquote(doc.items[i].id)
        /\ shown.consents[i].Given = isTrue(unquote(doc.items[i].value))
    BY DEF printed, ParseIdentityCertificate, ConsentOf
  <2>2. doc.items[i] \in [id : Attribute, value : Attribute, mandatory : Attribute]
    BY <1>1, ElementType
  <2>3. doc.items[i].id \in Attribute /\ doc.items[i].value \in Attribute
    BY <2>2
  <2>4. unquote(doc.items[i].id).word = doc.items[i].id.word
    BY <2>3 DEF Attribute, unquote
  <2> QED BY <2>1, <2>3, <2>4, Readings DEF answered
<1>5. DOMAIN shown.consents = DOMAIN doc.items
  BY DEF printed, ParseIdentityCertificate
<1>6. ASSUME NEW a \in shown.artifacts
      PROVE  a.verified <=> intact(IF a.Kind = "nfc-signed-result" THEN doc.nfcSigned
                                   ELSE doc.nfcDeclaration)
  <2>1. PICK artifact \in cert.Artifacts : a = [Kind |-> artifact.Kind, verified |-> VerifyHash(artifact)]
    BY DEF printed
  <2>2. a.Kind = artifact.Kind /\ (a.verified <=> VerifyHash(artifact))
    BY <2>1
  <2>3. \/ doc.nfcSigned # Missing /\ artifact = ArtifactOf("nfc-signed-result", doc.nfcSigned)
        \/ doc.nfcDeclaration # Missing
             /\ artifact = ArtifactOf("nfc-attributes-declaration", doc.nfcDeclaration)
    BY <2>1 DEF ParseIdentityCertificate
  <2>4. \A kind, element : ArtifactOf(kind, element).Kind = kind
    BY DEF ArtifactOf
  <2>5. CASE doc.nfcSigned # Missing /\ artifact = ArtifactOf("nfc-signed-result", doc.nfcSigned)
    <3>1. doc.nfcSigned \in Element /\ a.Kind = "nfc-signed-result"
      BY <1>1, <2>2, <2>4, <2>5
    <3> QED BY <2>2, <2>5, <3>1, DigestVerifies
  <2>6. CASE doc.nfcDeclaration # Missing
               /\ artifact = ArtifactOf("nfc-attributes-declaration", doc.nfcDeclaration)
    <3>1. doc.nfcDeclaration \in Element /\ a.Kind # "nfc-signed-result"
      BY <1>1, <2>2, <2>4, <2>6
    <3> QED BY <2>2, <2>6, <3>1, DigestVerifies
  <2> QED BY <2>3, <2>5, <2>6
<1>7. ASSUME NEW c \in AttributeCodes
      PROVE  \/ shown.attributes[c] = plain(Empty)
             \/ \E i \in DOMAIN doc.results :
                  /\ named(doc.results[i].code, c) /\ lastOf(doc, i)
                  /\ shown.attributes[c].word = doc.results[i].value.word
  <2>1. shown.attributes[c] = raw(doc.results, c)
    BY <1>3
  <2> HIDE DEF shown
  <2> QED BY <1>1, <2>1, AttributeHolds
<1> QED BY <1>2, <1>4, <1>5, <1>6, <1>7

(* Tests, attributes, consents and artefacts are printed as the document has    *)
(* them, for any certificate (identity.go:237, 359).                            *)
THEOREM PrintedDocumented == Spec => []PrintedIsDocumented
<1>1. Told => PrintedIsDocumented
  BY PrintedOf DEF Told, PrintedIsDocumented
<1> QED BY <1>1, InitTold, NextTold, PTL DEF Spec
-------------------------------------------------------------------------------
Ranges ==
  /\ mode \in Modes
  /\ exit \in [Callers -> Exits]
  /\ \A r \in Callers : item[r] <= Len(downloadable) + 1 /\ saved[r] \subseteq touched[r]

(* The calls of a run count off the kinds: the n-th asked for the n-th kind.    *)
Counted(r) ==
  /\ pc[r] = "idle" => item[r] = 1 /\ count[r] = 0
  /\ mode[r] = "download" =>
       /\ pc[r] = "ask" => item[r] = count[r] + 1
       /\ pc[r] \in {"asked", "write"} => item[r] = count[r]
       /\ count[r] <= Len(downloadable)
       /\ \A m \in posted : m.id[1] = r => m.request = downloadable[m.id[2]]
  /\ exit[r] \in {"saved", "noartefacts"} =>
       mode[r] = "download" /\ pc[r] = "exited" /\ count[r] = Len(downloadable)
  /\ \A i \in 1 .. count[r] : \E m \in posted : m.id = <<r, i>>
  /\ pc[r] = "asked" => \E m \in posted : m.id = Id(r) /\ m.request = wanted(r)

HandedOut(kind, bytes) ==
  \E m \in posted, s \in served : m.id = s.id /\ m.request = kind /\ s.response.value = bytes

(* What a run has in hand without an error, or in its file, the portal sent it. *)
Backed(r) ==
  /\ phase[r] = "flight" => result[r].value = NoBinary
  /\ phase[r] = "returned" /\ result[r].err = "nil" /\ result[r].value # NoBinary =>
       \E s \in served : s.id = Id(r) /\ s.response.value = result[r].value
  /\ pc[r] = "write" => HandedOut(downloadable[item[r]], data[r])
  /\ exit[r] = "shown" =>
       /\ pc[r] = "exited" /\ data[r] \in Contents
       /\ \E s \in served : s.id[1] = r /\ s.response.value = data[r]

DiskBacked == \A f \in Files : whole(f) => HandedOut(f[1], disk[f])

Account == /\ WireInv /\ Ranges /\ DiskBacked
           /\ \A r \in Callers : Counted(r) /\ Backed(r)

LEMMA InitAccount == Init => Account
<1> SUFFICES ASSUME Init PROVE Account
  OBVIOUS
<1>1. WireInv
  BY InitWire DEF Init
<1>2. Len(downloadable) \in Nat
  BY RetrievalAssumption
<1>3. Ranges
  BY <1>2 DEF Init, Ranges, Exits
<1>4. DiskBacked
  BY RetrievalAssumption DEF Init, DiskBacked, whole
<1>5. ASSUME NEW r \in Callers PROVE Counted(r) /\ Backed(r)
  <2>1. /\ pc[r] = "idle" /\ item[r] = 1 /\ exit[r] = "none" /\ count[r] = 0
        /\ phase[r] = "idle" /\ posted = {}
    BY DEF Init, SoapInit
  <2> QED BY <1>2, <2>1 DEF Counted, Backed
<1> QED BY <1>1, <1>3, <1>4, <1>5 DEF Account

(* What an action of a run r leaves to the others.                              *)
Apart(r) ==
  /\ mode' = mode
  /\ posted \subseteq posted' /\ served \subseteq served'
  /\ \A m \in posted' \ posted : m.id[1] = r
  /\ \A q \in Callers \ {r} :
       /\ pc'[q] = pc[q] /\ item'[q] = item[q] /\ data'[q] = data[q] /\ exit'[q] = exit[q]
       /\ phase'[q] = phase[q] /\ count'[q] = count[q] /\ result'[q] = result[q]

LEMMA OthersAccount ==
  ASSUME Account, NEW r \in Callers, Apart(r), NEW q \in Callers \ {r}
  PROVE  Counted(q)' /\ Backed(q)'
<1>1. Counted(q) /\ Backed(q)
  BY DEF Account
<1>2. /\ mode'[q] = mode[q] /\ pc'[q] = pc[q] /\ item'[q] = item[q] /\ data'[q] = data[q]
      /\ exit'[q] = exit[q] /\ phase'[q] = phase[q] /\ count'[q] = count[q] /\ result'[q] = result[q]
      /\ posted \subseteq posted' /\ served \subseteq served'
      /\ \A m \in posted' : m.id[1] = q => m \in posted
  BY DEF Apart
<1>3. Id(q)' = Id(q) /\ wanted(q)' = wanted(q)
  BY <1>2 DEF Id, wanted
<1>4. Counted(q)'
  BY <1>1, <1>2, <1>3 DEF Counted
<1>5. \A kind, bytes : HandedOut(kind, bytes) => HandedOut(kind, bytes)'
  BY <1>2 DEF HandedOut
<1>6. Backed(q)'
  <2> PICK kind, bytes : kind = downloadable[item[q]] /\ bytes = data[q]
    OBVIOUS
  <2>1. (pc[q] = "write" => HandedOut(downloadable[item[q]], data[q]))'
    <3>1. pc[q] = "write" => HandedOut(kind, bytes)'
      BY <1>1, <1>5 DEF Backed
    <3> QED BY <1>2, <3>1 DEF HandedOut
  <2> QED BY <1>1, <1>2, <1>3, <2>1 DEF Backed
<1> QED BY <1>4, <1>6

(* The disk stays accounted for when it does not change.                        *)
LEMMA DiskKept ==
  ASSUME Account, UNCHANGED disk, posted \subseteq posted', served \subseteq served'
  PROVE  DiskBacked'
<1>1. \A kind, bytes : HandedOut(kind, bytes) => HandedOut(kind, bytes)'
  BY DEF HandedOut
<1>2. ASSUME NEW f \in Files, whole(f)' PROVE HandedOut(f[1], disk[f])'
  <2>1. HandedOut(f[1], disk[f])
    BY <1>2 DEF Account, DiskBacked, whole
  <2>2. disk'[f] = disk[f]
    OBVIOUS
  <2> QED BY <1>1, <2>1, <2>2 DEF HandedOut
<1> QED BY <1>2 DEF DiskBacked

(* A step that makes no call, shows nothing and does not write: what the run    *)
(* must keep of its count is said by where it goes.                             *)
LEMMA MovesAccount ==
  ASSUME Account, Inv, NEW r \in Callers, Active(r) \/ pc[r] = "idle",
         UNCHANGED <<soapVars, mode, disk, touched, saved>>,
         NEW where \in {"ask", "exited"}, NEW how \in Exits, NEW at \in {item[r], item[r] + 1},
         pc' = [pc EXCEPT ![r] = where], exit' = [exit EXCEPT ![r] = how],
         item' = [item EXCEPT ![r] = at], data' = [data EXCEPT ![r] = data'[r]],
         at <= Len(downloadable) + 1,
         how \in {"saved", "noartefacts"} =>
           mode[r] = "download" /\ where = "exited" /\ count[r] = Len(downloadable),
         how = "shown" => /\ where = "exited" /\ data'[r] \in Contents
                          /\ \E s \in served : s.id[1] = r /\ s.response.value = data'[r],
         where = "ask" /\ mode[r] = "download" => at = count[r] + 1
  PROVE  Account'
<1>1. /\ UNCHANGED <<phase, count, result, outbound, inbound, posted, served>>
      /\ WireInv'
  BY StutterWire DEF Account, soapVars, callVars
<1>2. /\ pc'[r] = where /\ exit'[r] = how /\ item'[r] = at
      /\ Apart(r)
  BY <1>1 DEF Inv, Types, Apart
<1>3. Ranges'
  BY DEF Account, Ranges, Inv, Types
<1>4. DiskBacked'
  BY <1>1, DiskKept
<1>5. Counted(r)'
  BY <1>1, <1>2 DEF Account, Counted
<1>6. Backed(r)'
  BY <1>1, <1>2 DEF Account, Backed, Id
<1> QED BY <1>1, <1>2, <1>3, <1>4, <1>5, <1>6, OthersAccount DEF Account

(* A run that has not ended has not ended in any way.                           *)
LEMMA NotEnded ==
  ASSUME Account, NEW r \in Callers
  PROVE  exit[r] \in Exits
BY DEF Account, Ranges

LEMMA StartAccount ==
  ASSUME Account, Inv, NEW r \in Callers, Start(r)
  PROVE  Account'
<1>1. /\ pc[r] = "idle" /\ item[r] = 1 /\ count[r] = 0
      /\ Len(downloadable) \in Nat
  BY RetrievalAssumption DEF Start, Account, Counted
<1>2. PICK where \in {"ask", "exited"}, how \in {exit[r], "usage"} :
        pc' = [pc EXCEPT ![r] = where] /\ exit' = [exit EXCEPT ![r] = how]
  <2>1. CASE Exit(r, "usage")
    BY <2>1 DEF Exit
  <2>2. CASE Goto(r, "ask")
    <3>1. exit' = [exit EXCEPT ![r] = exit[r]]
      BY <2>2 DEF Goto, Account, Ranges
    <3> QED BY <2>2, <3>1 DEF Goto
  <2> QED BY <2>1, <2>2 DEF Start
<1>3. /\ UNCHANGED <<soapVars, mode, disk, touched, saved, item, data>>
      /\ item' = [item EXCEPT ![r] = item[r]] /\ data' = [data EXCEPT ![r] = data'[r]]
  BY DEF Start, Inv, Types
<1>4. how \in Exits /\ how \notin {"saved", "noartefacts", "shown"}
  BY <1>1, NotEnded DEF Account, Counted, Backed, Exits
<1>5. item[r] <= Len(downloadable) + 1 /\ item[r] = count[r] + 1
  BY <1>1
<1> QED BY <1>1, <1>2, <1>3, <1>4, <1>5, MovesAccount

LEMMA SkipAccount ==
  ASSUME Account, Inv, NEW r \in Callers, Skip(r)
  PROVE  Account'
<1>1. /\ pc[r] = "asked" /\ mode[r] = "download"
      /\ item[r] \in DOMAIN downloadable /\ item[r] = count[r]
      /\ Len(downloadable) \in Nat /\ item[r] + 1 <= Len(downloadable) + 1
  BY RetrievalAssumption DEF Skip, Inv, Progress, Account, Counted
<1>2. /\ pc' = [pc EXCEPT ![r] = "ask"] /\ exit' = [exit EXCEPT ![r] = exit[r]]
      /\ item' = [item EXCEPT ![r] = item[r] + 1] /\ data' = [data EXCEPT ![r] = data'[r]]
      /\ UNCHANGED <<soapVars, mode, disk, touched, saved>>
  BY DEF Skip, Goto, Inv, Types, Account, Ranges
<1>3. exit[r] \in Exits /\ exit[r] \notin {"saved", "noartefacts", "shown"} /\ Active(r)
  BY <1>1, NotEnded DEF Account, Counted, Backed, Active
<1> QED BY <1>1, <1>2, <1>3, MovesAccount

LEMMA EndsAccount ==
  ASSUME Account, Inv, NEW r \in Callers, Finished(r) \/ WriteFails(r) \/ Kill(r)
  PROVE  Account'
<1>1. /\ UNCHANGED <<soapVars, mode, disk, touched, saved>>
      /\ item' = [item EXCEPT ![r] = item[r]] /\ data' = [data EXCEPT ![r] = data'[r]]
      /\ Active(r)
  BY DEF Finished, WriteFails, Kill, Inv, Types, Active
<1>2. PICK how : /\ pc' = [pc EXCEPT ![r] = "exited"] /\ exit' = [exit EXCEPT ![r] = how]
                 /\ \/ how \in {"writefailed", "killed"}
                    \/ how \in {"noartefacts", "saved"} /\ Finished(r)
  BY DEF Finished, WriteFails, Kill, Exit
<1>3. how \in Exits /\ how # "shown"
  BY <1>2 DEF Exits
<1>4. item[r] \in Nat /\ count[r] \in Nat /\ Len(downloadable) \in Nat
      /\ item[r] <= Len(downloadable) + 1
  BY RetrievalAssumption DEF Inv, Types, Account, WireInv, SoapTypeOK, Ranges
<1>5. how \in {"saved", "noartefacts"} => mode[r] = "download" /\ count[r] = Len(downloadable)
  BY <1>2, <1>4 DEF Finished, more, Account, Counted
<1> QED BY <1>1, <1>2, <1>3, <1>4, <1>5, MovesAccount

(* What can be used was served.                                                 *)
LEMMA UsableBacked ==
  ASSUME Account, Inv, NEW r \in Callers, pc[r] = "asked", phase[r] = "returned", usable(r)
  PROVE  /\ result[r].value \in Contents
         /\ \E s \in served : s.id = Id(r) /\ s.id[1] = r /\ s.response.value = result[r].value
<1>1. result[r].value \in Contents
  BY DEF usable, Inv, Wire, Bytes
<1>2. PICK s \in served : s.id = Id(r) /\ s.response.value = result[r].value
  BY DEF usable, Account, Backed
<1> QED BY <1>1, <1>2 DEF Id

LEMMA ShowAccount ==
  ASSUME Account, Inv, NEW r \in Callers, showSamlURL(r) \/ showAttributes(r)
  PROVE  Account'
<1>1. /\ UNCHANGED <<soapVars, mode, disk, touched, saved>>
      /\ item' = [item EXCEPT ![r] = item[r]] /\ data' = [data EXCEPT ![r] = data'[r]]
      /\ data'[r] = result[r].value
      /\ pc[r] = "asked" /\ phase[r] = "returned"
  BY DEF showSamlURL, showAttributes, Inv, Types
<1>2. PICK how : /\ pc' = [pc EXCEPT ![r] = "exited"] /\ exit' = [exit EXCEPT ![r] = how]
                 /\ how = "failed" \/ (how = "shown" /\ usable(r))
  BY DEF showSamlURL, showAttributes, Exit
<1>3. how \in Exits /\ how \notin {"saved", "noartefacts"} /\ Active(r)
  BY <1>1, <1>2 DEF Exits, Active
<1>4. how = "shown" => /\ data'[r] \in Contents
                       /\ \E s \in served : s.id[1] = r /\ s.response.value = data'[r]
  BY <1>1, <1>2, UsableBacked
<1>5. item[r] <= Len(downloadable) + 1
  BY DEF Account, Ranges
<1> QED BY <1>1, <1>2, <1>3, <1>4, <1>5, MovesAccount

LEMMA AskAccount ==
  ASSUME Account, Inv, NEW r \in Callers, Ask(r)
  PROVE  Account'
<1> DEFINE message == [id |-> <<r, count[r] + 1>>, request |-> wanted(r)]
<1>1. /\ pc[r] = "ask" /\ more(r) /\ pc' = [pc EXCEPT ![r] = "asked"]
      /\ UNCHANGED <<exit, mode, item, data, touched, saved, knew, disk, artefact>>
      /\ Call(r, wanted(r), NoBinary)
  BY DEF Ask, Goto
<1>2. /\ phase' = [phase EXCEPT ![r] = "flight"] /\ count' = [count EXCEPT ![r] = count[r] + 1]
      /\ result' = [result EXCEPT ![r] = [err |-> "none", value |-> NoBinary]]
      /\ posted' = posted \cup {message} /\ served' = served
  BY <1>1 DEF Call, Begin
<1>3. message.id = <<r, count[r] + 1>> /\ message.request = wanted(r)
  OBVIOUS
<1> HIDE DEF message
<1>4. WireInv'
  BY <1>1, CallWire DEF Account
<1>5. /\ phase'[r] = "flight" /\ count'[r] = count[r] + 1 /\ count[r] \in Nat
      /\ result'[r].value = NoBinary /\ pc'[r] = "asked"
      /\ Len(downloadable) \in Nat /\ item[r] \in Nat /\ DOMAIN downloadable = 1 .. Len(downloadable)
  BY <1>1, <1>2, RetrievalAssumption DEF Account, WireInv, SoapTypeOK, Inv, Types
<1>6. Apart(r)
  BY <1>1, <1>2, <1>3 DEF Apart, Account, WireInv, SoapTypeOK, Inv, Types
<1>7. Ranges' /\ DiskBacked'
  BY <1>1, <1>2, DiskKept DEF Account, Ranges
<1>8. exit'[r] = exit[r] /\ exit[r] \notin {"saved", "noartefacts", "shown"}
  BY <1>1 DEF Account, Counted, Backed
<1>9. Counted(r)'
  <2>1. message \in posted' /\ posted \subseteq posted' /\ wanted(r)' = wanted(r)
    BY <1>1, <1>2 DEF wanted
  <2>2. message.id = Id(r)'
    BY <1>3, <1>5 DEF Id
  <2>3. \A i \in 1 .. count'[r] : \E m \in posted' : m.id = <<r, i>>
    <3>1. \A i \in 1 .. count[r] : \E m \in posted' : m.id = <<r, i>>
      BY <2>1 DEF Account, Counted
    <3>2. \A i \in 1 .. count'[r] : i \in 1 .. count[r] \/ i = count[r] + 1
      BY <1>5
    <3> QED BY <1>3, <2>1, <3>1, <3>2
  <2>4. mode[r] = "download" =>
          /\ item[r] = count'[r] /\ count'[r] <= Len(downloadable)
          /\ \A m \in posted' : m.id[1] = r => m.request = downloadable[m.id[2]]
    <3>1. mode[r] = "download" => item[r] = count[r] + 1 /\ item[r] <= Len(downloadable)
      BY <1>1 DEF Account, Counted, more
    <3>2. mode[r] = "download" => message.request = downloadable[message.id[2]]
      BY <1>3, <3>1 DEF wanted
    <3>3. mode[r] = "download" => \A m \in posted : m.id[1] = r => m.request = downloadable[m.id[2]]
      BY DEF Account, Counted
    <3> QED BY <1>2, <1>5, <3>1, <3>2, <3>3
  <2> QED BY <1>1, <1>3, <1>5, <1>8, <2>1, <2>2, <2>3, <2>4 DEF Counted
<1>10. Backed(r)'
  BY <1>5, <1>8 DEF Backed
<1> QED BY <1>4, <1>6, <1>7, <1>9, <1>10, OthersAccount DEF Account

LEMMA OpenAccount ==
  ASSUME Account, Inv, NEW r \in Callers, Open(r)
  PROVE  Account'
<1> DEFINE c == result[r].value
<1>0. PICK f : f = path(item[r], c)
  OBVIOUS
<1>1. /\ pc[r] = "asked" /\ mode[r] = "download" /\ phase[r] = "returned" /\ usable(r)
      /\ data' = [data EXCEPT ![r] = c] /\ data'[r] = c
      /\ UNCHANGED <<soapVars, mode, item, saved, knew, artefact>>
      /\ item' = [item EXCEPT ![r] = item[r]] /\ item[r] <= Len(downloadable) + 1
  BY DEF Open, Inv, Types, Account, Ranges
<1>2. CASE Exit(r, "writefailed") /\ UNCHANGED <<disk, touched>>
  <2>1. data' = [data EXCEPT ![r] = data'[r]] /\ Active(r) /\ "writefailed" \in Exits
    BY <1>1 DEF Active, Exits
  <2> QED BY <1>1, <1>2, <2>1, MovesAccount DEF Exit
<1>3. CASE /\ disk' = [disk EXCEPT ![f] = Torn]
           /\ touched' = [touched EXCEPT ![r] = @ \cup {f}]
           /\ Goto(r, "write")
  <2>1. /\ pc' = [pc EXCEPT ![r] = "write"] /\ pc'[r] = "write" /\ exit' = exit
        /\ UNCHANGED <<phase, count, result, outbound, inbound, posted, served>>
        /\ WireInv'
    BY <1>1, <1>3, StutterWire DEF Goto, Inv, Types, Account, soapVars, callVars
  <2>2. Apart(r)
    BY <1>1, <2>1 DEF Apart, Inv, Types
  <2>3. Ranges'
    BY <1>1, <1>3, <2>1 DEF Account, Ranges, Inv, Types
  <2>4. item[r] \in DOMAIN downloadable /\ item[r] = count[r] /\ exit[r] # "shown"
        /\ exit[r] \notin {"saved", "noartefacts"}
    BY <1>1 DEF Inv, Progress, Account, Counted, Backed
  <2>5. Counted(r)'
    BY <1>1, <2>1, <2>4 DEF Account, Counted
  <2>6. HandedOut(downloadable[item[r]], c)
    <3>1. PICK s \in served : s.id = Id(r) /\ s.response.value = c
      BY <1>1, UsableBacked
    <3>2. PICK m \in posted : m.id = Id(r) /\ m.request = downloadable[item[r]]
      BY <1>1 DEF Account, Counted, wanted
    <3> QED BY <3>1, <3>2 DEF HandedOut
  <2>7. Backed(r)'
    <3>1. HandedOut(downloadable[item[r]], data[r])'
      BY <1>1, <2>1, <2>6 DEF HandedOut
    <3> QED BY <1>1, <2>1, <2>4, <3>1 DEF Account, Backed, Id
  <2>8. DiskBacked'
    <3>1. ASSUME NEW g \in Files, whole(g)' PROVE HandedOut(g[1], disk[g])'
      <4>1. g # f /\ disk'[g] = disk[g]
        BY <1>3, <3>1, RetrievalAssumption DEF whole, Inv, Types
      <4>2. HandedOut(g[1], disk[g])
        BY <3>1, <4>1 DEF Account, DiskBacked, whole
      <4> QED BY <2>1, <4>1, <4>2 DEF HandedOut
    <3> QED BY <3>1 DEF DiskBacked
  <2> QED BY <2>1, <2>2, <2>3, <2>5, <2>7, <2>8, OthersAccount DEF Account
<1> QED BY <1>0, <1>2, <1>3 DEF Open

LEMMA WriteAccount ==
  ASSUME Account, Inv, NEW r \in Callers, Write(r)
  PROVE  Account'
<1>0. PICK f : f = file(r)
  OBVIOUS
<1>1. /\ pc[r] = "write" /\ mode[r] = "download" /\ data[r] \in Contents
      /\ item[r] \in DOMAIN downloadable /\ f \in touched[r] /\ f \in Files
      /\ f[1] = downloadable[item[r]]
      /\ pc' = [pc EXCEPT ![r] = "ask"] /\ item' = [item EXCEPT ![r] = @ + 1]
      /\ saved' = [saved EXCEPT ![r] = @ \cup {f}]
      /\ UNCHANGED <<soapVars, exit, mode, data, touched, knew, artefact>>
  BY <1>0, PathIsFile DEF Write, Goto, Inv, Progress, file
<1>2. PICK left : disk' = [disk EXCEPT ![f] = left] /\ left \in {data[r], Torn}
  BY <1>0 DEF Write, file
<1>3. /\ UNCHANGED <<phase, count, result, outbound, inbound, posted, served>>
      /\ WireInv'
  BY <1>1, StutterWire DEF Account, soapVars, callVars
<1>4. Apart(r)
  BY <1>1, <1>3 DEF Apart, Inv, Types
<1>5. /\ pc'[r] = "ask" /\ item'[r] = item[r] + 1 /\ item[r] \in Nat
      /\ Len(downloadable) \in Nat /\ item[r] <= Len(downloadable)
  BY <1>1, RetrievalAssumption DEF Inv, Types
<1>6. Ranges'
  <2>1. \A q \in Callers : item'[q] <= Len(downloadable) + 1
    BY <1>1, <1>4, <1>5 DEF Account, Ranges, Apart
  <2>2. \A q \in Callers : saved'[q] \subseteq touched'[q]
    BY <1>1 DEF Account, Ranges, Inv, Types
  <2> QED BY <1>1, <2>1, <2>2 DEF Account, Ranges
<1>7. item[r] = count[r] /\ exit[r] # "shown" /\ exit[r] \notin {"saved", "noartefacts"}
  BY <1>1 DEF Account, Counted, Backed
<1>8. Counted(r)' /\ Backed(r)'
  <2>1. Counted(r)'
    BY <1>1, <1>3, <1>5, <1>7 DEF Account, Counted
  <2>2. Backed(r)'
    BY <1>1, <1>3, <1>5, <1>7 DEF Account, Backed, Id
  <2> QED BY <2>1, <2>2
<1>9. DiskBacked'
  <2>1. ASSUME NEW g \in Files, whole(g)' PROVE HandedOut(g[1], disk[g])'
    <3>1. CASE g = f
      <4>1. disk'[g] = data[r]
        BY <1>1, <1>2, <2>1, <3>1, RetrievalAssumption DEF whole, Inv, Types
      <4>2. HandedOut(g[1], data[r])
        BY <1>1, <3>1 DEF Account, Backed
      <4> QED BY <1>3, <4>1, <4>2 DEF HandedOut
    <3>2. CASE g # f
      <4>1. disk'[g] = disk[g]
        BY <1>2, <3>2 DEF Inv, Types
      <4>2. HandedOut(g[1], disk[g])
        BY <2>1, <4>1 DEF Account, DiskBacked, whole
      <4> QED BY <1>3, <4>1, <4>2 DEF HandedOut
    <3> QED BY <3>1, <3>2
  <2> QED BY <2>1 DEF DiskBacked
<1> QED BY <1>3, <1>4, <1>6, <1>8, <1>9, OthersAccount DEF Account

LEMMA CallEndsAccount ==
  ASSUME Account, Inv, NEW r \in Callers, CallEnds(r)
  PROVE  Account'
<1>1. /\ UNCHANGED <<mode, pc, exit, item, data, touched, saved, knew, disk, artefact>>
      /\ UNCHANGED <<count, outbound, posted, served>>
      /\ phase[r] = "flight" /\ phase' = [phase EXCEPT ![r] = "returned"]
  BY DEF CallEnds, runVars, Active, Return, Fail, Finish
<1>2. WireInv'
  BY ReturnWire, FailWire DEF CallEnds, Account
<1>3. PICK answer :
        /\ result' = [result EXCEPT ![r] = answer]
        /\ answer.err = "nil" /\ answer.value # NoBinary =>
             \E s \in served : s.id = Id(r) /\ s.response.value = answer.value
  <2>1. CASE Return(r)
    <3>1. PICK m \in inbound : /\ m.id = Id(r)
                               /\ result' = [result EXCEPT ![r] = decodeResponse(m.response, result[r].value)]
      BY <2>1 DEF Return, Finish
    <3>2. PICK answer : answer = decodeResponse(m.response, result[r].value)
      OBVIOUS
    <3>3. answer.value \in {m.response.value, NoBinary}
      BY <1>1, <3>2 DEF decodeResponse, Account, Backed
    <3>4. m \in served
      BY DEF Account, WireInv, SoapTypeOK
    <3> QED BY <3>1, <3>2, <3>3, <3>4
  <2>2. CASE Fail(r)
    <3> DEFINE failed == [err |-> "transport", value |-> result[r].value]
    <3>1. result' = [result EXCEPT ![r] = failed] /\ failed.err # "nil"
      BY <2>2 DEF Fail, Finish
    <3> QED BY <3>1
  <2> QED BY <2>1, <2>2 DEF CallEnds
<1>4. phase'[r] = "returned" /\ result'[r] = answer
  BY <1>1, <1>3 DEF Account, WireInv, SoapTypeOK
<1>5. Apart(r)
  BY <1>1, <1>3 DEF Apart, Account, WireInv, SoapTypeOK
<1>6. Ranges' /\ DiskBacked'
  BY <1>1, DiskKept DEF Account, Ranges
<1>7. Counted(r)'
  BY <1>1 DEF Account, Counted, Id, wanted
<1>8. Backed(r)'
  <2>1. \A kind, bytes : HandedOut(kind, bytes)' <=> HandedOut(kind, bytes)
    BY <1>1 DEF HandedOut
  <2>2. (pc[r] = "write" => HandedOut(downloadable[item[r]], data[r]))'
    BY <1>1 DEF Account, Backed, HandedOut
  <2> QED BY <1>1, <1>3, <1>4, <2>2 DEF Account, Backed, Id
<1> QED BY <1>2, <1>5, <1>6, <1>7, <1>8, OthersAccount DEF Account

(* A step of the portal, or none.                                               *)
LEMMA PortalAccount ==
  ASSUME Account, WireInv', UNCHANGED <<mode, pc, exit, item, data, touched, saved, disk>>,
         UNCHANGED <<phase, count, result, posted>>, served \subseteq served'
  PROVE  Account'
<1>1. Ranges' /\ DiskBacked'
  BY DiskKept DEF Account, Ranges
<1>2. ASSUME NEW r \in Callers PROVE Counted(r)' /\ Backed(r)'
  <2>1. Counted(r)'
    BY DEF Account, Counted, Id, wanted
  <2>2. HandedOut(downloadable[item[r]], data[r]) => HandedOut(downloadable[item[r]], data[r])'
    BY DEF HandedOut
  <2>3. Backed(r)'
    BY <2>2 DEF Account, Backed, Id
  <2> QED BY <2>1, <2>3
<1> QED BY <1>1, <1>2 DEF Account

LEMMA NextAccount ==
  ASSUME Account, Inv, [Next]_vars
  PROVE  Account'
<1>1. ASSUME NEW m \in outbound, ServeRequest(m) PROVE Account'
  <2>1. UNCHANGED <<mode, pc, exit, item, data, touched, saved, disk>>
    BY <1>1 DEF ServeRequest, runVars
  <2>2. PICK response : response.kind \in Kinds /\ Serve(m, response)
    <3>1. CASE \E c \in offers(m.request) :
                 Serve(m, [status |-> 200, kind |-> IF c = NoBinary THEN "empty" ELSE "payload", value |-> c])
      <4>1. PICK c : Serve(m, [status |-> 200, kind |-> IF c = NoBinary THEN "empty" ELSE "payload", value |-> c])
        BY <3>1
      <4> DEFINE answer == [status |-> 200, kind |-> IF c = NoBinary THEN "empty" ELSE "payload", value |-> c]
      <4>2. answer.kind \in Kinds
        BY DEF Kinds
      <4> QED BY <4>1, <4>2
    <3>2. CASE Serve(m, [status |-> 200, kind |-> "payload", value |-> Garbage])
      <4> DEFINE answer == [status |-> 200, kind |-> "payload", value |-> Garbage]
      <4>1. answer.kind \in Kinds
        BY DEF Kinds
      <4> QED BY <3>2, <4>1
    <3>3. CASE Serve(m, [status |-> 500, kind |-> "fault", value |-> NoBinary])
      <4> DEFINE answer == [status |-> 500, kind |-> "fault", value |-> NoBinary]
      <4>1. answer.kind \in Kinds
        BY DEF Kinds
      <4> QED BY <3>3, <4>1
    <3> QED BY <1>1, <3>1, <3>2, <3>3 DEF ServeRequest
  <2>3. WireInv'
    BY <2>2, ServeWire DEF Account
  <2>4. UNCHANGED <<phase, count, result, posted>> /\ served \subseteq served'
    BY <2>2 DEF Serve, callVars
  <2> QED BY <2>1, <2>3, <2>4, PortalAccount
<1>2. CASE UNCHANGED vars \/ \E k \in ArtefactKinds : Publish(k)
  <2>1. UNCHANGED soapVars /\ UNCHANGED <<mode, pc, exit, item, data, touched, saved, disk>>
    BY <1>2 DEF vars, Publish, runVars
  <2>2. WireInv' /\ UNCHANGED <<phase, count, result, posted, served>>
    BY <2>1, StutterWire DEF Account, soapVars, callVars
  <2> QED BY <2>1, <2>2, PortalAccount
<1>3. ASSUME NEW r \in Callers, Start(r) \/ Step(r) \/ CallEnds(r) \/ Kill(r) PROVE Account'
  BY <1>3, StartAccount, AskAccount, SkipAccount, OpenAccount, WriteAccount, EndsAccount,
     ShowAccount, CallEndsAccount DEF Step
<1> QED BY <1>1, <1>2, <1>3 DEF Next

LEMMA Accounts == Spec => [](Inv /\ Account)
<1>1. Init => Inv /\ Account
  BY InitInv, InitAccount
<1>2. Inv /\ Account /\ [Next]_vars => Inv' /\ Account'
  BY NextInv, NextAccount
<1> QED BY <1>1, <1>2, PTL DEF Spec

(* Every variable has its type; what a run says it saved, it opened.            *)
THEOREM TypeCorrect == Spec => []TypeOK
<1>1. Inv /\ Account /\ Told => TypeOK
  <2> SUFFICES ASSUME Inv, Account, Told PROVE TypeOK
    OBVIOUS
  <2>1. SoapTypeOK /\ mode \in Modes /\ exit \in [Callers -> Exits]
    BY DEF Account, WireInv, Ranges
  <2>2. item \in [Callers -> 1 .. Len(downloadable) + 1]
    <3>1. Len(downloadable) \in Nat
      BY RetrievalAssumption
    <3> QED BY <3>1 DEF Inv, Types, Account, Ranges
  <2>3. \A r \in Callers : saved[r] \subseteq touched[r]
    BY DEF Account, Ranges
  <2>4. \A r \in Callers :
          certificate[r] \in Documents /\ (certificate[r] = Missing <=> told[r] = Missing)
    <3> SUFFICES ASSUME NEW r \in Callers
                 PROVE  certificate[r] \in Documents /\ (certificate[r] = Missing <=> told[r] = Missing)
      OBVIOUS
    <3>1. CASE told[r] = Missing
      BY <3>1, RetrievalAssumption DEF Told
    <3>2. CASE told[r] # Missing
      BY <3>2 DEF Told
    <3> QED BY <3>1, <3>2
  <2> QED BY <2>1, <2>2, <2>3, <2>4 DEF Inv, Types, Bytes, TypeOK
<1> QED BY <1>1, Accounts, InitTold, NextTold, PTL DEF Spec

(* A download that ran to its end asked for every kind once, whatever it got.   *)
THEOREM AsksForEveryKind == Spec => []EveryKindAsked
<1>1. Account => EveryKindAsked
  <2> SUFFICES ASSUME Account, NEW r \in Callers, exit[r] \in {"saved", "noartefacts"},
                      NEW i \in DOMAIN downloadable
               PROVE  {m.id : m \in {n \in posted : n.id[1] = r /\ n.request = downloadable[i]}} = {<<r, i>>}
    BY DEF EveryKindAsked
  <2>1. /\ mode[r] = "download" /\ count[r] = Len(downloadable)
        /\ DOMAIN downloadable = 1 .. Len(downloadable)
        /\ \A m \in posted : m.id[1] = r => m.request = downloadable[m.id[2]]
    BY RetrievalAssumption DEF Account, Counted
  <2>2. PICK n \in posted : n.id = <<r, i>>
    BY <2>1 DEF Account, Counted
  <2>3. n.id[1] = r /\ n.request = downloadable[i]
    BY <2>1, <2>2
  <2>4. ASSUME NEW m \in posted, m.id[1] = r, m.request = downloadable[i] PROVE m.id = <<r, i>>
    <3>1. m.id \in Callers \X Nat /\ m.id[2] \in DOMAIN downloadable
      BY <2>1, <2>4 DEF Account, WireInv, SoapTypeOK
    <3>2. m.id[2] = i
      BY <2>1, <2>4, <3>1, RetrievalAssumption
    <3> QED BY <2>4, <3>1, <3>2
  <2> QED BY <2>2, <2>3, <2>4
<1> QED BY <1>1, Accounts, PTL

(* A whole file holds what the portal handed out for its kind, and what a run   *)
(* shows was handed out to it.                                                  *)
THEOREM NothingElseServed == Spec => []OnlyWhatWasServed
<1>1. Account => OnlyWhatWasServed
  <2> SUFFICES ASSUME Account PROVE OnlyWhatWasServed
    OBVIOUS
  <2>1. \A f \in Files : whole(f) =>
          \E m \in posted, s \in served :
            /\ m.id = s.id /\ m.request = f[1]
            /\ s.response.value = disk[f]
    BY DEF Account, DiskBacked, HandedOut
  <2>2. \A r \in Callers : exit[r] = "shown" =>
          \E s \in served : s.id[1] = r /\ s.response.value = data[r] /\ data[r] \in Contents
    BY DEF Account, Backed
  <2> QED BY <2>1, <2>2 DEF OnlyWhatWasServed
<1> QED BY <1>1, Accounts, PTL
-------------------------------------------------------------------------------
LEMMA NextCalls == Account /\ [Next]_vars => [RC!Next]_RC!vars
<1> SUFFICES ASSUME Account, [Next]_vars PROVE [RC!Next]_RC!vars
  OBVIOUS
<1>0. WireInv
  BY DEF Account
<1>1. ASSUME NEW r \in Callers, Ask(r) PROVE [RC!Next]_RC!vars
  <2>1. Call(r, wanted(r), NoBinary)
    BY <1>1 DEF Ask
  <2> QED BY <1>0, <2>1, CallRefines
<1>2. ASSUME NEW r \in Callers, CallEnds(r) PROVE [RC!Next]_RC!vars
  BY <1>0, <1>2, ReturnRefines, FailRefines DEF CallEnds
<1>3. ASSUME NEW m \in outbound, ServeRequest(m) PROVE [RC!Next]_RC!vars
  <2>1. PICK a : Serve(m, a)
    BY <1>3 DEF ServeRequest
  <2> QED BY <1>0, <2>1, ServeRefines
<1>4. CASE UNCHANGED soapVars
  BY <1>4, StutterRefines
<1> QED BY <1>1, <1>2, <1>3, <1>4
     DEF Next, Step, Start, Skip, Open, Write, WriteFails, Finished, showSamlURL, showAttributes,
         Kill, Publish, vars

(* The calls of -download, -attrs and -saml implement RemoteCall as well        *)
(* (client.go:123): whatever the portal hands out and wherever runs die, a call  *)
(* is executed at most once, and before it succeeds.                            *)
THEOREM CallsImplementRemoteCall == Spec => RemoteCallSpec
<1>1. Init => RC!Init
  BY InitRefines DEF Init
<1>2. Account /\ [Next]_vars => [RC!Next]_RC!vars
  BY NextCalls
<1> QED BY <1>1, <1>2, Accounts, PTL DEF Spec, RC!Spec, RemoteCallSpec
===============================================================================
