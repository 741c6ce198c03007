-------------------------- MODULE SubsidiaryProofs --------------------------
(***************************************************************************)
(* The operator's registry under concurrent requests, for any number of    *)
(* requests and containers.                                                *)
(***************************************************************************)
EXTENDS Subsidiary, TLAPS

(* The first state.                                                        *)
LEMMA InitHolds == Init => SubsidiaryInv
  BY SubsidiaryAssumption DEF Init, SubsidiaryInv, SubsidiaryTypeOK, NoLostUpdate, NoRecords,
     EmptyFile, Registries, Files, Tools

(* An update of a registry is a registry.                                  *)
LEMMA UpdatedType ==
    ASSUME SubsidiaryTypeOK, NEW r \in Requests, NEW reg \in Registries
    PROVE  Updated(reg, r) \in Registries
<1> USE SubsidiaryAssumption
<1>1. op[r] \in Tools /\ on[r] \in Sessions
  BY DEF SubsidiaryTypeOK
<1>2. CASE op[r] = "send_task"
  BY <1>2 DEF Updated, Registries
<1>3. CASE op[r] # "send_task"
  <2> DEFINE to == [provision |-> "empty", initialize |-> "locked",
                    deinitialize |-> "empty", destroy |-> "none"][op[r]]
  <2>1. to \in {"none", "empty", "locked"}
    BY <1>1, <1>3 DEF Tools
  <2>2. Updated(reg, r) = [reg EXCEPT !.subs[on[r]] = to]
    BY <1>3 DEF Updated
  <2> HIDE DEF to
  <2> QED BY <1>1, <2>1, <2>2 DEF Registries
<1> QED BY <1>2, <1>3

(* The steps of the containers leave the operator alone.                   *)
LEMMA ContainerStep ==
    ASSUME SubsidiaryInv, NEW r \in Requests, CtrStep(r)
    PROVE  SubsidiaryInv'
<1> USE SubsidiaryAssumption
<1>1. UNCHANGED opVars
  BY DEF CtrStep, CtrLoadLock, CtrLaunch, CtrActivate, CtrPublish, CtrPrompt, CtrRespond,
     CtrTake, CtrStop, CtrBegin, CtrEnd, CtrDropped, CtrUnheard
<1>2. SubsidiaryTypeOK
  BY DEF SubsidiaryInv
<1>3. call' \in [Requests -> InCall \cup {"none", "ok", "err"}]
  BY <1>2 DEF SubsidiaryTypeOK, CtrStep, CtrLoadLock, CtrLaunch, CtrActivate, CtrPublish, CtrPrompt,
     CtrRespond, CtrTake, CtrStop, CtrBegin, CtrEnd, CtrDropped, CtrUnheard, Step, InCall
<1>4. box' = box /\ active' \in [Sessions -> Requests \cup {NoRequest}]
  BY <1>2 DEF SubsidiaryTypeOK, CtrStep, CtrLoadLock, CtrLaunch, CtrActivate, CtrPublish, CtrPrompt,
     CtrRespond, CtrTake, CtrStop, CtrBegin, CtrEnd, CtrDropped, CtrUnheard, ctrVars
<1>5. doubt' \in SUBSET Sessions /\ clean' = clean
  BY <1>2 DEF SubsidiaryTypeOK, CtrStep, CtrLoadLock, CtrLaunch, CtrActivate, CtrPublish, CtrPrompt,
     CtrRespond, CtrTake, CtrStop, CtrBegin, CtrEnd, CtrDropped, CtrUnheard
<1>6. file' \in [Sessions -> Files]
  <2>1. CASE CtrActivate(r)
    BY <1>2, <2>1 DEF SubsidiaryTypeOK, CtrActivate, Files
  <2>2. CASE CtrBegin(r)
    BY <1>2, <2>2 DEF SubsidiaryTypeOK, CtrBegin, Files
  <2>3. CASE CtrEnd(r)
    BY <1>2, <2>3 DEF SubsidiaryTypeOK, CtrEnd, Files, EmptyFile
  <2>4. CASE UNCHANGED file
    BY <1>2, <2>4 DEF SubsidiaryTypeOK
  <2> QED BY <2>1, <2>2, <2>3, <2>4 DEF CtrStep, CtrLoadLock, CtrLaunch, CtrPublish, CtrPrompt,
          CtrRespond, CtrTake, CtrStop, CtrDropped, CtrUnheard, ctrVars
<1> QED BY <1>1, <1>2, <1>3, <1>4, <1>5, <1>6
        DEF SubsidiaryInv, SubsidiaryTypeOK, NoLostUpdate, opVars

(* The operator's own steps: only the request that has the lock saves, and *)
(* what it has loaded is still what the file holds.                        *)
LEMMA OperatorStep ==
    ASSUME SubsidiaryInv, NEW r \in Requests, OpStep(r)
    PROVE  SubsidiaryInv'
<1> USE SubsidiaryAssumption DEF Go, Step, ctrVars
<1>1. CASE Provision(r)
  BY <1>1 DEF SubsidiaryInv, SubsidiaryTypeOK, NoLostUpdate, Provision
<1>2. CASE LoadRegistry(r)
  <2>1. SubsidiaryTypeOK'
    BY <1>2 DEF SubsidiaryInv, SubsidiaryTypeOK, LoadRegistry, InCall
  <2>2. \A q \in Requests : pc[q] \notin {"wait", "destroy", "save", "drop"}
    BY <1>2 DEF SubsidiaryInv, LoadRegistry
  <2>3. /\ holder' = r /\ copy'[r] = registry
        /\ \A q \in Requests : q # r => pc'[q] = pc[q]
    BY <1>2 DEF SubsidiaryInv, SubsidiaryTypeOK, LoadRegistry
  <2> QED BY <1>2, <2>1, <2>2, <2>3 DEF SubsidiaryInv, NoLostUpdate, LoadRegistry
<1>3. CASE NoLock(r)
  BY <1>3 DEF SubsidiaryInv, SubsidiaryTypeOK, NoLostUpdate, NoLock
<1>4. CASE Answered(r)
  BY <1>4 DEF SubsidiaryInv, SubsidiaryTypeOK, NoLostUpdate, Answered
<1>5. CASE TimedOut(r)
  BY <1>5 DEF SubsidiaryInv, SubsidiaryTypeOK, NoLostUpdate, TimedOut
<1>6. CASE Destroy(r)
  <2>1. SubsidiaryTypeOK'
    BY <1>6 DEF SubsidiaryInv, SubsidiaryTypeOK, Destroy
  <2> QED BY <1>6, <2>1 DEF SubsidiaryInv, SubsidiaryTypeOK, NoLostUpdate, Destroy
<1>7. CASE Save(r)
  <2>1. copy[r] = registry /\ ledger = registry /\ registry \in Registries
    BY <1>7 DEF SubsidiaryInv, SubsidiaryTypeOK, NoLostUpdate, Save
  <2>2. Updated(registry, r) \in Registries
    BY <2>1, UpdatedType DEF SubsidiaryInv
  <2>3. registry' \in Registries /\ registry' = ledger'
    BY <1>7, <2>1, <2>2 DEF Save
  <2>4. SubsidiaryTypeOK'
    BY <1>7, <2>3 DEF SubsidiaryInv, SubsidiaryTypeOK, Save
  <2>5. holder = r /\ \A q \in Requests : q # r => pc[q] \notin {"wait", "destroy", "save", "drop"}
    BY <1>7 DEF SubsidiaryInv, Save
  <2>6. pc'[r] = "drop" /\ \A q \in Requests : q # r => pc'[q] = pc[q]
    BY <1>7 DEF SubsidiaryInv, SubsidiaryTypeOK, Save
  <2> QED BY <1>7, <2>3, <2>4, <2>5, <2>6 DEF SubsidiaryInv, NoLostUpdate, Save
<1>8. CASE DropLock(r)
  <2>1. SubsidiaryTypeOK'
    BY <1>8 DEF SubsidiaryInv, SubsidiaryTypeOK, DropLock, NoRecords, Registries
  <2>2. \A q \in Requests : q # r => pc[q] \notin {"wait", "destroy", "save", "drop"}
    BY <1>8 DEF SubsidiaryInv, DropLock
  <2> QED BY <1>8, <2>1, <2>2 DEF SubsidiaryInv, SubsidiaryTypeOK, NoLostUpdate, DropLock
<1> QED BY <1>1, <1>2, <1>3, <1>4, <1>5, <1>6, <1>7, <1>8 DEF OpStep

(* Every step of the operator, of a container and of a crash.              *)
LEMMA StepKeepsInv == SubsidiaryInv /\ [Next]_vars => SubsidiaryInv'
<1> SUFFICES ASSUME SubsidiaryInv, [Next]_vars PROVE SubsidiaryInv'
  OBVIOUS
<1> USE SubsidiaryAssumption
<1>1. CASE \E r \in Requests : \E tool \in Tools, s \in Sessions : Request(r, tool, s)
  BY <1>1 DEF SubsidiaryInv, SubsidiaryTypeOK, NoLostUpdate, Request, Go, ctrVars
<1>2. CASE \E r \in Requests : OpStep(r)
  BY <1>2, OperatorStep
<1>3. CASE \E r \in Requests : CtrStep(r)
  BY <1>3, ContainerStep
<1>4. CASE OperatorCrash
  BY <1>4 DEF SubsidiaryInv, SubsidiaryTypeOK, NoLostUpdate, OperatorCrash, NoRecords, Registries, ctrVars
<1>5. CASE UNCHANGED vars
  BY <1>5 DEF SubsidiaryInv, SubsidiaryTypeOK, NoLostUpdate, vars, opVars, ctrVars
<1> QED BY <1>1, <1>2, <1>3, <1>4, <1>5 DEF Next

(* One request at a time works on the registry, on what it has loaded      *)
(* itself, for every number of requests and whatever times out or crashes. *)
THEOREM RegistryInvariant == Spec => []SubsidiaryInv
  BY InitHolds, StepKeepsInv, PTL DEF Spec

(* Every update of the registry that was saved is in the registry for ever *)
(* after: requests that overlap while they wait for containers do not      *)
(* overwrite each other's records.                                         *)
THEOREM UpdatesKept == Spec => []NoLostUpdate
<1>1. SubsidiaryInv => NoLostUpdate
  BY DEF SubsidiaryInv
<1> QED BY <1>1, RegistryInvariant, PTL

--------------------------------------------------------------------------------
(***************************************************************************)
(* The record, the lock file and the hookup agree.  A call belongs to the  *)
(* tool of its request, and is made for a recorded container that runs.    *)
(***************************************************************************)
CallsFit ==
    \A r \in Requests :
        /\ pc[r] \in {"launch", "acquire", "destroy"} => call[r] = "none"
        /\ pc[r] = "save" /\ op[r] # "send_task" => call[r] = "none"
        /\ pc[r] = "wait" => call[r] # "none" /\ op[r] \notin {"provision", "destroy"}
        /\ call[r] \in {"launch", "activate", "publish"} => op[r] = "initialize"
        /\ call[r] \in {"stop", "begin", "end"} => op[r] = "deinitialize"
        /\ call[r] = "prompt" => op[r] = "send_task"
        /\ call[r] # "none" => box[on[r]] = "running" /\ registry.subs[on[r]] # "none"

(* Only provision finds a container without a record, and nothing has      *)
(* happened in it; only destroy leaves a record without a container.       *)
RecordsFit ==
    /\ \A r \in Requests :
          /\ pc[r] \in {"destroy", "wait", "save"} /\ op[r] # "provision" => registry.subs[on[r]] # "none"
          /\ pc[r] = "destroy" => op[r] = "destroy"
          /\ pc[r] = "save" /\ op[r] = "destroy" => box[on[r]] = "gone"
          /\ pc[r] \in {"acquire", "save"} /\ op[r] = "provision" =>
                box[on[r]] = "running" /\ registry.subs[on[r]] = "none"
    /\ \A q, r \in Requests :
          /\ pc[q] \in {"acquire", "save"} /\ op[q] = "provision"
          /\ pc[r] \in {"acquire", "save"} /\ op[r] = "provision"
          /\ on[q] = on[r]
          => q = r
    /\ \A s \in Sessions :
          /\ box[s] = "absent" => registry.subs[s] = "none"
          /\ box[s] # "gone" /\ registry.subs[s] = "none" => file[s] = EmptyFile /\ active[s] = NoRequest

(* A container that an abandoned call may still change is in doubt, and    *)
(* stays so until a request that met no such call has saved its outcome.   *)
DoubtCovers ==
    /\ \A r \in Requests : Abandoned(r) /\ op[r] # "send_task" => on[r] \in doubt
    /\ \A r \in clean : pc[r] \in {"wait", "destroy", "save", "drop"}
    /\ \A r \in clean : pc[r] \in {"wait", "destroy", "save"} => ~Disturbed(on[r])
    /\ \A r \in Requests : pc[r] \in {"wait", "destroy", "save"} /\ r \notin clean => on[r] \in doubt

Done(r) == pc[r] = "save" \/ (pc[r] = "wait" /\ call[r] = "ok")

(* What a request that met no abandoned call has done so far is there.     *)
Progress ==
    \A r \in Requests : r \in clean =>
        /\ op[r] = "initialize" =>
              /\ pc[r] = "wait" /\ call[r] = "publish" => file[on[r]] = [state |-> "locked", agent |-> r]
              /\ Done(r) => file[on[r]] = [state |-> "locked", agent |-> r] /\ active[on[r]] = r
        /\ op[r] = "deinitialize" =>
              /\ pc[r] = "wait" /\ call[r] \in {"stop", "begin", "end"} => active[on[r]] = NoRequest
              /\ pc[r] = "wait" /\ call[r] = "end" => file[on[r]].state = "deinitializing"
              /\ Done(r) => file[on[r]] = EmptyFile /\ active[on[r]] = NoRequest

(* What a call has checked of a lock file that is not in doubt still holds *)
(* when it acts on it.                                                     *)
ChecksHold ==
    \A r \in Requests : pc[r] = "wait" /\ on[r] \notin doubt =>
        /\ call[r] \in {"launch", "activate"} => file[on[r]].state = "empty"
        /\ call[r] \in {"stop", "begin"} => file[on[r]].state = "locked"

(* The request has changed the container and not saved the record yet.     *)
Working(r) ==
    \/ op[r] = "initialize" /\ (Done(r) \/ (pc[r] = "wait" /\ call[r] = "publish"))
    \/ op[r] = "deinitialize" /\ (Done(r) \/ (pc[r] = "wait" /\ call[r] \in {"stop", "begin", "end"}))

(* The operator's record, the lock file and the hookup say the same.       *)
Agreed(s) ==
    /\ registry.subs[s] = file[s].state
    /\ (file[s].state = "locked") <=> (active[s] # NoRequest)
    /\ file[s].agent = active[s]

(* A session that is not in doubt agrees, but for the steps of the request *)
(* that changes it.                                                        *)
AgreedUnlessWorking ==
    \A s \in Sessions \ doubt :
        box[s] = "running" /\ registry.subs[s] # "none" /\ (\A r \in Requests : on[r] = s => ~Working(r)) =>
            Agreed(s)

(* Agreement alone is not inductive: it needs what the request at work has *)
(* done so far, and what puts a session in doubt.                          *)
AgreementInv ==
    /\ SubsidiaryInv
    /\ CallsFit
    /\ RecordsFit
    /\ DoubtCovers
    /\ Progress
    /\ ChecksHold
    /\ AgreedUnlessWorking

(* What the invariant says, for the proofs of its preservation.            *)
LEMMA AgreementFacts ==
    ASSUME AgreementInv
    PROVE  /\ SubsidiaryInv /\ SubsidiaryTypeOK /\ CallsFit /\ RecordsFit
           /\ DoubtCovers /\ Progress /\ ChecksHold /\ AgreedUnlessWorking
  BY DEF AgreementInv, SubsidiaryInv

(* The registry lock has one owner.                                        *)
LEMMA OneOwner ==
    ASSUME SubsidiaryInv, NEW q \in Requests, NEW r \in Requests,
           pc[q] \in {"wait", "destroy", "save", "drop"}, pc[r] \in {"wait", "destroy", "save", "drop"}
    PROVE  q = r
  BY DEF SubsidiaryInv

(* A step of a call that leaves its container as it is: the lock file is   *)
(* checked, the agent launched, prompted or stopped, the call dropped or   *)
(* its answer lost.                                                        *)
LEMMA CallGoesOn ==
    ASSUME AgreementInv, NEW r \in Requests,
           \/ CtrLoadLock(r) \/ CtrLaunch(r) \/ CtrPrompt(r) \/ CtrRespond(r)
           \/ CtrStop(r) \/ CtrDropped(r) \/ CtrUnheard(r)
    PROVE  AgreementInv'
<1> USE SubsidiaryAssumption, AgreementFacts, OneOwner DEF SubsidiaryTypeOK, CallsFit, Abandoned,
     CtrLoadLock, CtrLaunch, CtrPrompt, CtrRespond, CtrStop, CtrDropped, CtrUnheard, Step, opVars,
     ctrVars, InCall
<1>1. CallsFit'
  BY DEF CallsFit
<1>2. RecordsFit'
  BY DEF RecordsFit
<1>3. DoubtCovers'
  BY DEF DoubtCovers, Disturbed
<1>4. Progress'
  BY DEF DoubtCovers, Progress, Done
<1>5. ChecksHold'
  BY DEF DoubtCovers, ChecksHold
<1>6. AgreedUnlessWorking'
  BY DEF DoubtCovers, AgreedUnlessWorking, Agreed, Working, Done
<1>7. SubsidiaryInv'
  BY ContainerStep DEF AgreementInv, CtrStep
<1> QED BY <1>1, <1>2, <1>3, <1>4, <1>5, <1>6, <1>7 DEF AgreementInv

(* The lock file is written.  A request that met no abandoned call found   *)
(* it empty, and nobody has touched it since.                              *)
LEMMA ActivateKeeps ==
    ASSUME AgreementInv, NEW r \in Requests, CtrActivate(r)
    PROVE  AgreementInv'
<1> USE SubsidiaryAssumption, AgreementFacts, OneOwner DEF SubsidiaryTypeOK, CallsFit, Abandoned,
     CtrActivate, Step, opVars, ctrVars, InCall
<1>1. CallsFit'
  BY DEF CallsFit
<1>2. RecordsFit'
  BY DEF RecordsFit
<1>3. DoubtCovers'
  BY DEF DoubtCovers, Disturbed
<1>4. Progress'
  BY DEF DoubtCovers, Progress, Done, Disturbed, EmptyFile
<1>5. ChecksHold'
  BY DEF DoubtCovers, ChecksHold
<1>6. AgreedUnlessWorking'
  BY DEF DoubtCovers, AgreedUnlessWorking, Agreed, Working, Done
<1>7. SubsidiaryInv'
  BY ContainerStep DEF AgreementInv, CtrStep
<1> QED BY <1>1, <1>2, <1>3, <1>4, <1>5, <1>6, <1>7 DEF AgreementInv

(* The hookup becomes active.                                              *)
LEMMA PublishKeeps ==
    ASSUME AgreementInv, NEW r \in Requests, CtrPublish(r)
    PROVE  AgreementInv'
<1> USE SubsidiaryAssumption, AgreementFacts, OneOwner DEF SubsidiaryTypeOK, CallsFit, Abandoned,
     CtrPublish, Step, opVars, ctrVars, InCall
<1>1. CallsFit'
  BY DEF CallsFit
<1>2. RecordsFit'
  BY DEF RecordsFit
<1>3. DoubtCovers'
  BY DEF DoubtCovers, Disturbed
<1>4. Progress'
  BY DEF DoubtCovers, Progress, Done, Disturbed, EmptyFile
<1>5. ChecksHold'
  BY DEF DoubtCovers, ChecksHold
<1>6. AgreedUnlessWorking'
  BY DEF DoubtCovers, AgreedUnlessWorking, Agreed, Working, Done
<1>7. SubsidiaryInv'
  BY ContainerStep DEF AgreementInv, CtrStep
<1> QED BY <1>1, <1>2, <1>3, <1>4, <1>5, <1>6, <1>7 DEF AgreementInv

(* The hookup is taken: it was active, so that the lock file is locked     *)
(* unless it is in doubt.                                                  *)
LEMMA TakeKeeps ==
    ASSUME AgreementInv, NEW r \in Requests, CtrTake(r)
    PROVE  AgreementInv'
<1> USE SubsidiaryAssumption, AgreementFacts, OneOwner DEF SubsidiaryTypeOK, CallsFit, Abandoned,
     CtrTake, Step, opVars, ctrVars, InCall
<1>1. CallsFit'
  BY DEF CallsFit
<1>2. RecordsFit'
  BY DEF RecordsFit
<1>3. DoubtCovers'
  BY DEF DoubtCovers, Disturbed
<1>4. Progress'
  BY DEF DoubtCovers, Progress, Done, Disturbed, EmptyFile
<1>5. ChecksHold'
  BY DEF DoubtCovers, ChecksHold, AgreedUnlessWorking, Agreed, Working, Done, Disturbed
<1>6. AgreedUnlessWorking'
  BY DEF DoubtCovers, AgreedUnlessWorking, Agreed, Working, Done
<1>7. SubsidiaryInv'
  BY ContainerStep DEF AgreementInv, CtrStep
<1> QED BY <1>1, <1>2, <1>3, <1>4, <1>5, <1>6, <1>7 DEF AgreementInv

(* The lock file begins to deinitialize.                                   *)
LEMMA BeginKeeps ==
    ASSUME AgreementInv, NEW r \in Requests, CtrBegin(r)
    PROVE  AgreementInv'
<1> USE SubsidiaryAssumption, AgreementFacts, OneOwner DEF SubsidiaryTypeOK, CallsFit, Abandoned,
     CtrBegin, Step, opVars, ctrVars, InCall
<1>1. CallsFit'
  BY DEF CallsFit
<1>2. RecordsFit'
  BY DEF RecordsFit
<1>3. DoubtCovers'
  BY DEF DoubtCovers, Disturbed
<1>4. Progress'
  BY DEF DoubtCovers, Progress, Done, Disturbed, Files
<1>5. ChecksHold'
  BY DEF DoubtCovers, ChecksHold
<1>6. AgreedUnlessWorking'
  BY DEF DoubtCovers, AgreedUnlessWorking, Agreed, Working, Done, ChecksHold, Disturbed, Files
<1>7. SubsidiaryInv'
  BY ContainerStep DEF AgreementInv, CtrStep
<1> QED BY <1>1, <1>2, <1>3, <1>4, <1>5, <1>6, <1>7 DEF AgreementInv

(* The lock file is empty again.                                           *)
LEMMA EndKeeps ==
    ASSUME AgreementInv, NEW r \in Requests, CtrEnd(r)
    PROVE  AgreementInv'
<1> USE SubsidiaryAssumption, AgreementFacts, OneOwner DEF SubsidiaryTypeOK, CallsFit, Abandoned,
     CtrEnd, Step, opVars, ctrVars, InCall
<1>1. CallsFit'
  BY DEF CallsFit
<1>2. RecordsFit'
  BY DEF RecordsFit
<1>3. DoubtCovers'
  BY DEF DoubtCovers, Disturbed
<1>4. Progress'
  BY DEF DoubtCovers, Progress, Done, Disturbed, EmptyFile
<1>5. ChecksHold'
  BY DEF DoubtCovers, ChecksHold
<1>6. AgreedUnlessWorking'
  BY DEF DoubtCovers, AgreedUnlessWorking, Agreed, Working, Done
<1>7. SubsidiaryInv'
  BY ContainerStep DEF AgreementInv, CtrStep
<1> QED BY <1>1, <1>2, <1>3, <1>4, <1>5, <1>6, <1>7 DEF AgreementInv

(* A request gives up, hears its answer or releases the lock.  A call it   *)
(* leaves behind puts the container in doubt.                              *)
LEMMA RequestGoesOn ==
    ASSUME AgreementInv, NEW r \in Requests, NoLock(r) \/ Answered(r) \/ TimedOut(r) \/ DropLock(r)
    PROVE  AgreementInv'
<1> USE SubsidiaryAssumption, AgreementFacts, OneOwner DEF SubsidiaryTypeOK, CallsFit, Abandoned,
     NoLock, Answered, TimedOut, DropLock, Go, Step, opVars, ctrVars, InCall
<1>1. CallsFit'
  BY DEF CallsFit
<1>2. RecordsFit'
  BY DEF RecordsFit
<1>3. DoubtCovers'
  BY DEF DoubtCovers, Disturbed
<1>4. Progress'
  BY DEF DoubtCovers, Progress, Done
<1>5. ChecksHold'
  BY DEF DoubtCovers, ChecksHold
<1>6. AgreedUnlessWorking'
  BY DEF DoubtCovers, AgreedUnlessWorking, Agreed, Working, Done
<1>7. SubsidiaryInv'
  BY OperatorStep DEF AgreementInv, OpStep
<1> QED BY <1>1, <1>2, <1>3, <1>4, <1>5, <1>6, <1>7 DEF AgreementInv

(* A container comes up before there is a record of it.                    *)
LEMMA ProvisionKeeps ==
    ASSUME AgreementInv, NEW r \in Requests, Provision(r)
    PROVE  AgreementInv'
<1> USE SubsidiaryAssumption, AgreementFacts, OneOwner DEF SubsidiaryTypeOK, CallsFit, Abandoned,
     Provision, Go, Step, opVars, ctrVars, InCall
<1>1. CallsFit'
  BY DEF CallsFit
<1>2. RecordsFit'
  BY DEF RecordsFit
<1>3. DoubtCovers'
  BY DEF DoubtCovers, Disturbed
<1>4. Progress'
  BY DEF DoubtCovers, Progress, Done, Disturbed, RecordsFit
<1>5. ChecksHold'
  BY DEF DoubtCovers, ChecksHold, Disturbed
<1>6. AgreedUnlessWorking'
  BY DEF DoubtCovers, AgreedUnlessWorking, Agreed, Working, Done, RecordsFit, EmptyFile, Disturbed
<1>7. SubsidiaryInv'
  BY OperatorStep DEF AgreementInv, OpStep
<1> QED BY <1>1, <1>2, <1>3, <1>4, <1>5, <1>6, <1>7 DEF AgreementInv

(* The lock is taken and the registry loaded: nobody else is at work.      *)
LEMMA LoadRegistryKeeps ==
    ASSUME AgreementInv, NEW r \in Requests, LoadRegistry(r)
    PROVE  AgreementInv'
<1> USE SubsidiaryAssumption, AgreementFacts, OneOwner DEF SubsidiaryTypeOK, CallsFit, Abandoned,
     LoadRegistry, Go, Step, opVars, ctrVars, InCall
<1>1. CallsFit'
  BY DEF CallsFit
<1>2. RecordsFit'
  BY DEF RecordsFit
<1>3. DoubtCovers'
  BY DEF DoubtCovers, Disturbed
<1>4. Progress'
  BY DEF DoubtCovers, Progress, Done, Disturbed, RecordsFit
<1>5. ChecksHold'
  BY DEF DoubtCovers, ChecksHold, Disturbed
<1>6. AgreedUnlessWorking'
  BY DEF DoubtCovers, AgreedUnlessWorking, Agreed, Working, Done, RecordsFit, EmptyFile, Disturbed
<1>7. SubsidiaryInv'
  BY OperatorStep DEF AgreementInv, OpStep
<1> QED BY <1>1, <1>2, <1>3, <1>4, <1>5, <1>6, <1>7 DEF AgreementInv

(* The container is destroyed, with every call that was in it.             *)
LEMMA DestroyKeeps ==
    ASSUME AgreementInv, NEW r \in Requests, Destroy(r)
    PROVE  AgreementInv'
<1> USE SubsidiaryAssumption, AgreementFacts, OneOwner DEF SubsidiaryTypeOK, CallsFit, Abandoned,
     Destroy, Go, Step, opVars, ctrVars, InCall
<1>1. CallsFit'
  BY DEF CallsFit
<1>2. RecordsFit'
  BY DEF RecordsFit
<1>3. DoubtCovers'
  BY DEF DoubtCovers, Disturbed
<1>4. Progress'
  BY DEF DoubtCovers, Progress, Done, Disturbed, RecordsFit
<1>5. ChecksHold'
  BY DEF DoubtCovers, ChecksHold, Disturbed
<1>6. AgreedUnlessWorking'
  BY DEF DoubtCovers, AgreedUnlessWorking, Agreed, Working, Done, RecordsFit, EmptyFile, Disturbed
<1>7. SubsidiaryInv'
  BY OperatorStep DEF AgreementInv, OpStep
<1> QED BY <1>1, <1>2, <1>3, <1>4, <1>5, <1>6, <1>7 DEF AgreementInv

(* What a save leaves in the registry: the record of the request's own     *)
(* session and no other.                                                   *)
LEMMA SavedRecords ==
    ASSUME AgreementInv, NEW r \in Requests, pc[r] = "save"
    PROVE  LET state == [provision |-> "empty", initialize |-> "locked",
                         deinitialize |-> "empty", destroy |-> "none"][op[r]]
           IN  Updated(copy[r], r).subs =
                  IF op[r] = "send_task" THEN registry.subs
                  ELSE [registry.subs EXCEPT ![on[r]] = state]
<1> USE AgreementFacts
<1>1. copy[r] = registry /\ registry \in Registries
  BY DEF SubsidiaryInv, SubsidiaryTypeOK
<1> QED BY <1>1 DEF Updated, Registries

(* The record is saved.  When it takes the container out of doubt, its     *)
(* request met no abandoned call and has done what it records; the record  *)
(* of a provision is that of a container nobody has used.                  *)
LEMMA SaveKeeps ==
    ASSUME AgreementInv, NEW r \in Requests, Save(r)
    PROVE  AgreementInv'
<1> USE SubsidiaryAssumption, AgreementFacts, OneOwner
<1> DEFINE state == [provision |-> "empty", initialize |-> "locked",
                     deinitialize |-> "empty", destroy |-> "none"][op[r]]
<1>0. /\ pc[r] = "save" /\ pc' = [pc EXCEPT ![r] = "drop"]
      /\ UNCHANGED <<holder, op, on, copy, call, box, file, active, clean>>
      /\ \/ /\ registry'.subs = IF op[r] = "send_task" THEN registry.subs
                                ELSE [registry.subs EXCEPT ![on[r]] = state]
            /\ doubt' = IF op[r] \in {"initialize", "deinitialize"} /\ r \in clean
                        THEN doubt \ {on[r]} ELSE doubt
         \/ /\ registry' = registry
            /\ doubt' = IF op[r] = "send_task" THEN doubt ELSE doubt \cup {on[r]}
  BY SavedRecords DEF Save, Go, ctrVars
<1>1. registry.subs \in [Sessions -> {"none", "empty", "locked"}] /\ on[r] \in Sessions /\ op[r] \in Tools
  BY DEF SubsidiaryTypeOK, Registries
<1>2. /\ op[r] = "provision" => state = "empty"
      /\ op[r] = "initialize" => state = "locked"
      /\ op[r] = "deinitialize" => state = "empty"
      /\ op[r] = "destroy" => state = "none"
  OBVIOUS
<1> HIDE DEF state
<1>3. CallsFit'
  BY <1>0, <1>1, <1>2 DEF SubsidiaryTypeOK, CallsFit, RecordsFit, Tools, InCall
<1>4. RecordsFit'
  BY <1>0, <1>1, <1>2 DEF SubsidiaryTypeOK, RecordsFit, Tools
<1>5. DoubtCovers'
  BY <1>0, <1>1 DEF SubsidiaryTypeOK, DoubtCovers, Abandoned, Disturbed, InCall
<1>6. Progress'
  BY <1>0 DEF SubsidiaryTypeOK, Progress, DoubtCovers, Done
<1>7. ChecksHold'
  BY <1>0 DEF SubsidiaryTypeOK, ChecksHold
<1>8. AgreedUnlessWorking'
  <2> SUFFICES ASSUME NEW s \in Sessions, s \notin doubt', box'[s] = "running", registry'.subs[s] # "none",
                      \A q \in Requests : on[q] = s => ~Working(q)'
               PROVE  Agreed(s)'
    BY <1>0 DEF AgreedUnlessWorking
  <2>1. \A q \in Requests : q # r => (Working(q)' <=> Working(q))
    BY <1>0 DEF SubsidiaryTypeOK, Working, Done
  <2>2. CASE s # on[r] \/ op[r] = "send_task"
    <3>1. registry'.subs[s] = registry.subs[s] /\ s \notin doubt
      BY <1>0, <1>1, <2>2 DEF Tools
    <3>2. \A q \in Requests : on[q] = s => ~Working(q)
      BY <2>1, <2>2 DEF Working
    <3> QED BY <1>0, <3>1, <3>2 DEF AgreedUnlessWorking, Agreed
  <2>3. CASE s = on[r] /\ op[r] = "provision"
    BY <1>0, <1>1, <1>2, <2>3 DEF Agreed, RecordsFit, EmptyFile
  <2>4. CASE s = on[r] /\ op[r] \in {"initialize", "deinitialize"}
    <3>1. r \in clean /\ registry'.subs[s] = state
      BY <1>0, <1>1, <2>4 DEF DoubtCovers
    <3>2. /\ op[r] = "initialize" => file[s] = [state |-> "locked", agent |-> r] /\ active[s] = r
          /\ op[r] = "deinitialize" => file[s] = EmptyFile /\ active[s] = NoRequest
      BY <1>0, <2>4, <3>1 DEF Progress, Done
    <3>3. file' = file /\ active' = active
      BY <1>0
    <3> QED BY <1>2, <2>4, <3>1, <3>2, <3>3 DEF Agreed, EmptyFile
  <2>5. CASE s = on[r] /\ op[r] = "destroy"
    BY <1>0, <1>1, <1>2, <2>5 DEF RecordsFit
  <2> QED BY <1>1, <2>2, <2>3, <2>4, <2>5 DEF Tools
<1>9. SubsidiaryInv'
  BY OperatorStep DEF AgreementInv, OpStep
<1> QED BY <1>3, <1>4, <1>5, <1>6, <1>7, <1>8, <1>9 DEF AgreementInv

(* A new request.                                                          *)
LEMMA RequestKeeps ==
    ASSUME AgreementInv, NEW r \in Requests, NEW tool \in Tools, NEW s \in Sessions, Request(r, tool, s)
    PROVE  AgreementInv'
<1> USE SubsidiaryAssumption, AgreementFacts, OneOwner DEF SubsidiaryTypeOK, CallsFit, Abandoned,
     Request, Go, Step, opVars, ctrVars, InCall
<1>1. CallsFit'
  BY DEF CallsFit
<1>2. RecordsFit'
  BY DEF RecordsFit
<1>3. DoubtCovers'
  BY DEF DoubtCovers, Disturbed
<1>4. Progress'
  BY DEF DoubtCovers, Progress, Done
<1>5. ChecksHold'
  BY DEF DoubtCovers, ChecksHold
<1>6. AgreedUnlessWorking'
  BY DEF DoubtCovers, AgreedUnlessWorking, Agreed, Working, Done
<1>7. SubsidiaryInv'
  BY StepKeepsInv DEF AgreementInv, Next, Request
<1> QED BY <1>1, <1>2, <1>3, <1>4, <1>5, <1>6, <1>7 DEF AgreementInv

(* A crash of the operator: whoever was waiting or about to save leaves    *)
(* its container in doubt.                                                 *)
LEMMA CrashKeeps ==
    ASSUME AgreementInv, OperatorCrash
    PROVE  AgreementInv'
<1> USE SubsidiaryAssumption, AgreementFacts, OneOwner DEF SubsidiaryTypeOK, CallsFit, Abandoned,
     OperatorCrash, Go, Step, opVars, ctrVars, InCall
<1>1. CallsFit'
  BY DEF CallsFit
<1>2. RecordsFit'
  BY DEF RecordsFit
<1>3. DoubtCovers'
  BY DEF DoubtCovers, Disturbed
<1>4. Progress'
  BY DEF DoubtCovers, Progress, Done
<1>5. ChecksHold'
  BY DEF DoubtCovers, ChecksHold
<1>6. AgreedUnlessWorking'
  BY DEF DoubtCovers, AgreedUnlessWorking, Agreed, Working, Done
<1>7. SubsidiaryInv'
  BY StepKeepsInv DEF AgreementInv, Next
<1> QED BY <1>1, <1>2, <1>3, <1>4, <1>5, <1>6, <1>7 DEF AgreementInv

(* A container changes only under a call of the request that has the lock, *)
(* unless an abandoned call has put it in doubt.                           *)
THEOREM AgreementHolds == Spec => []AgreementInv
<1>1. Init => AgreementInv
  BY InitHolds, SubsidiaryAssumption DEF Init, AgreementInv, CallsFit, RecordsFit, DoubtCovers, Progress,
     ChecksHold, AgreedUnlessWorking, Agreed, Working, Done, NoRecords, EmptyFile, Abandoned, Disturbed, InCall
<1>2. AgreementInv /\ [Next]_vars => AgreementInv'
  <2> SUFFICES ASSUME AgreementInv, [Next]_vars PROVE AgreementInv'
    OBVIOUS
  <2>1. CASE UNCHANGED vars
    BY <2>1 DEF vars, opVars, ctrVars, AgreementInv, SubsidiaryInv, SubsidiaryTypeOK, NoLostUpdate, CallsFit,
       RecordsFit, DoubtCovers, Progress, ChecksHold, AgreedUnlessWorking, Agreed, Working, Done,
       Abandoned, Disturbed
  <2>2. CASE \E r \in Requests : CtrStep(r)
    BY <2>2, CallGoesOn,
       ActivateKeeps, PublishKeeps, TakeKeeps, BeginKeeps, EndKeeps DEF CtrStep
  <2>3. CASE \E r \in Requests : OpStep(r)
    BY <2>3, ProvisionKeeps, LoadRegistryKeeps, RequestGoesOn, DestroyKeeps, SaveKeeps DEF OpStep
  <2>4. CASE \E r \in Requests : \E tool \in Tools, s \in Sessions : Request(r, tool, s)
    BY <2>4, RequestKeeps
  <2> QED BY <2>1, <2>2, <2>3, <2>4, CrashKeeps DEF Next
<1> QED BY <1>1, <1>2, PTL DEF Spec

(* Unless a session is in doubt, the operator's record, the container's    *)
(* lock file and its hookup agree whenever no request is under way for it, *)
(* for any number of requests and containers, whatever timed out, failed   *)
(* or crashed before.                                                      *)
THEOREM RecordsAgree == Spec => []Agreement
<1>1. AgreementInv => Agreement
  BY DEF AgreementInv, Agreement, AgreedUnlessWorking, Agreed, Quiet, Working, Done
<1> QED BY <1>1, AgreementHolds, PTL

(* Unless a session is in doubt, its lock file goes round Empty, Locked,   *)
(* Deinitializing, Empty, although initialize saves the lock it loaded     *)
(* before the agent was launched, and asks nothing of the file again.      *)
THEOREM FilesGoRound == Spec => FileLifecycle
<1> DEFINE Turn(s) ==
      \/ file[s].state = "empty" /\ file'[s].state = "locked"
      \/ /\ file[s].state = "locked" /\ file'[s].state = "deinitializing"
         /\ file'[s].agent = file[s].agent
      \/ file[s].state = "deinitializing" /\ file'[s] = EmptyFile
<1>1. ASSUME AgreementInv, [Next]_vars, NEW s \in Sessions, s \notin doubt, file'[s] # file[s]
      PROVE  Turn(s)
  <2> USE AgreementFacts, <1>1 DEF SubsidiaryTypeOK
  <2>1. PICK r \in Requests : CtrActivate(r) \/ CtrBegin(r) \/ CtrEnd(r)
    BY DEF Next, OpStep, CtrStep, vars, opVars, ctrVars, Request, Provision, LoadRegistry, NoLock, Answered,
       TimedOut, Destroy, Save, DropLock, OperatorCrash, CtrLoadLock, CtrLaunch, CtrPrompt, CtrRespond, CtrStop,
       CtrDropped, CtrUnheard, CtrPublish, CtrTake
  <2>2. on[r] = s
    BY <2>1 DEF CtrActivate, CtrBegin, CtrEnd
  <2>3. pc[r] = "wait"
    BY <2>1, <2>2 DEF CtrActivate, CtrBegin, CtrEnd, CallsFit, DoubtCovers, Abandoned, InCall
  <2>4. r \in clean
    BY <2>2, <2>3 DEF DoubtCovers
  <2>5. CASE CtrActivate(r)
    BY <2>2, <2>3, <2>5 DEF CtrActivate, ChecksHold
  <2>6. CASE CtrBegin(r)
    BY <2>2, <2>6 DEF CtrBegin, Files
  <2>7. CASE CtrEnd(r)
    <3>1. file[s].state = "deinitializing"
      BY <2>2, <2>3, <2>4, <2>7 DEF CtrEnd, CallsFit, Progress
    <3>2. file'[s] = EmptyFile
      BY <2>2, <2>7 DEF CtrEnd
    <3> QED BY <3>1, <3>2
  <2> QED BY <2>1, <2>5, <2>6, <2>7
<1>2. AgreementInv /\ [Next]_vars => [\A s \in Sessions \ doubt : file'[s] # file[s] => Turn(s)]_vars
  BY <1>1
<1> QED BY <1>2, AgreementHolds, PTL DEF Spec, FileLifecycle
=============================================================================
