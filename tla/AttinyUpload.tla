------------------------------ MODULE AttinyUpload ------------------------------
(***************************************************************************)
(* Whole uploads to the ATtiny bootloader of AttinyFlash: retries and      *)
(* power cuts against the trampoline, and a last page that is erased with  *)
(* page 0.                                                                 *)
(***************************************************************************)
EXTENDS AttinyFlash, UploadMaster

\* What an image must be to arrive at all (see EveryByteDurable for the
\* second): it begins with a relative jump, no two are alike in page 0, and
\* none ends there.
ASSUME ImageAssumption ==
  /\ ImageSize > FLASH_ERASE_SIZE
  /\ \A img \in Images : IsRelativeJump(Word(img[0], img[1]))
  /\ \A img1, img2 \in Images :
       (\A i \in 0 .. FLASH_ERASE_SIZE - 1 : img1[i] = img2[i]) => img1 = img2

uploadVars == <<attinyVars, master>>

\* A child that lost its reset vector does not come back.
ChildStarts ==
  /\ ChildReceives /\ ~ cut
  /\ IF request.cmd = "WRITE_FLASH"
       THEN \/ Accepted(request.at, request.count, image)
            \/ WriteRejected(request.at) /\ UNCHANGED attinyHistory
       ELSE Finalize

ChildWorks ==
  /\ frame = "child"
  /\ \/ LocalStep(ReadByte) /\ UNCHANGED attinyHistory
     \/ RejectVector \/ EraseTrampoline \/ ProgramTrampoline
     \/ RejectRow \/ ErasePage \/ ProgramRow
  /\ UNCHANGED master

\* When the machine starts, the child may be reset with it.
NextUpload == MasterStarts /\ (Restart \/ UNCHANGED attinyVars)

PowerCut == ChildRestarts /\ Restart

UploadInit == Init /\ MasterInit

UploadNext ==
  \/ (MasterStep /\ UNCHANGED attinyVars)
  \/ ChildStarts \/ ChildWorks \/ NextUpload \/ PowerCut

\* As in Stm32Upload.
Fairness ==
  /\ WF_uploadVars(MasterSends /\ UNCHANGED attinyVars)
  /\ WF_uploadVars(MasterRepeats /\ UNCHANGED attinyVars)
  /\ WF_uploadVars(MasterGivesUp /\ UNCHANGED attinyVars)
  /\ WF_uploadVars(NextUpload)
  /\ WF_uploadVars(ChildWorks)
  /\ WF_uploadVars(ChildReplies /\ UNCHANGED attinyVars)
  /\ SF_uploadVars(ChildStarts)
  /\ SF_uploadVars(MasterReceives /\ UNCHANGED attinyVars)

UploadSpec == UploadInit /\ [][UploadNext]_uploadVars /\ Fairness

-----------------------------------------------------------------------------
\* The type invariant.
UploadTypeOK == TypeOK /\ MasterTypeOK

\* When an upload is done, READ_FLASH shows the image, the reset vector and
\* the last page included, whatever uploads were cut before it at whatever
\* step: what a cut upload left in page 0 never makes writePage skip the erase
\* that the last page needs.
DoneMeansStored == outcome = "done" => InFlash(ReadByte)

\* PROTOCOL.md: when the bytes sent are identical to the current content,
\* there is no erase-write cycle; nor is one needed for the two bytes that are
\* stored elsewhere.
NoWear == [][(image \in uploaded) => (UNCHANGED flash)]_uploadVars

\* No loss, repetition or restart stops uploads for good, but for the one cut
\* that takes the reset vector.
UploadsFinish == []<>(outcome = "done") \/ <>cut
=============================================================================
