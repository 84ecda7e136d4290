------------------------------ MODULE Stm32Upload ------------------------------
(***************************************************************************)
(* Whole uploads to the STM32 bootloader of Stm32Flash.                    *)
(***************************************************************************)
EXTENDS Stm32Flash, UploadMaster

uploadVars == <<vars, master>>

ChildStarts ==
  /\ ChildReceives
  /\ IF request.cmd = "WRITE_FLASH"
       THEN \/ WriteAccepted(request.at, request.count, image)
            \/ WriteRejected(request.at)
       ELSE FinalizeFlash

ChildWorks ==
  /\ frame = "child"
  /\ LocalStep(ReadByte) \/ RejectRow \/ ErasePage \/ ProgramRow
  /\ UNCHANGED master

\* When the machine starts, the child may be reset with it.
NextUpload == MasterStarts /\ (Reset \/ UNCHANGED vars)

PowerCut == ChildRestarts /\ Reset

UploadInit == Init /\ MasterInit

UploadNext ==
  \/ (MasterStep /\ UNCHANGED vars)
  \/ ChildStarts \/ ChildWorks \/ NextUpload \/ PowerCut

\* Master and child keep going, and noise does not hit every frame: a frame
\* sent again and again is received at last.
Fairness ==
  /\ WF_uploadVars(MasterSends /\ UNCHANGED vars)
  /\ WF_uploadVars(MasterRepeats /\ UNCHANGED vars)
  /\ WF_uploadVars(MasterGivesUp /\ UNCHANGED vars)
  /\ WF_uploadVars(NextUpload)
  /\ WF_uploadVars(ChildWorks)
  /\ WF_uploadVars(ChildReplies /\ UNCHANGED vars)
  /\ SF_uploadVars(ChildStarts)
  /\ SF_uploadVars(MasterReceives /\ UNCHANGED vars)

UploadSpec == UploadInit /\ [][UploadNext]_uploadVars /\ Fairness

-----------------------------------------------------------------------------
\* The type invariant.
UploadTypeOK == TypeOK /\ MasterTypeOK

\* What a master may believe: when its upload is done, the image is in flash,
\* whichever frames were lost, commands repeated, and uploads cut.
DoneMeansStored == outcome = "done" => InFlash(ReadByte)

\* PROTOCOL.md: a master that repeats a WRITE_FLASH takes INVALID_ARGUMENTS
\* for the sign that the first one arrived.  Said of flash that can fail: the
\* lost reply may have been COMMAND_FAILED, and the upload is done all the same.
InvalidMeansArrived == DoneMeansStored

\* PROTOCOL.md: when the bytes sent are identical to the current content,
\* there is no erase-write cycle.  Once uploaded, the image can be sent at
\* every startup, with any losses, and flash does not change any more.
NoWear == [][(image \in uploaded) => (UNCHANGED flash)]_uploadVars

\* No loss, repetition or restart stops uploads for good.
UploadsFinish == []<>(outcome = "done")
=============================================================================
