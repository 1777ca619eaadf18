---------------------------- MODULE SecurityLog ----------------------------
(***************************************************************************)
(* The security log of the master, src/src/master/security_log.py: as the  *)
(* safety log it appends, and it never rotates, but each record has a hash *)
(* of its contents and of the hash before.                                 *)
(*                                                                         *)
(* SHA-256 is taken to be injective: a hash is the sequence of what it     *)
(* was made of, and GENESIS_HASH is the empty sequence.  The contents of a *)
(* record are its number.                                                  *)
(***************************************************************************)
EXTENDS LogFile

VARIABLE chain  \* _last_chain_hash

securityVars == <<logVars, chain>>

GENESIS_HASH == <<>>
Hash(previous, n) == Append(previous, n)
SecurityRecord(n, previous) == [seq |-> n, hash |-> Hash(previous, n)]

SecurityInit == LogInit /\ chain = GENESIS_HASH
-----------------------------------------------------------------------------
SecurityLogEvent == LogEvent /\ UNCHANGED chain
SecurityWriteLine(extent) == WriteLine(extent) /\ UNCHANGED chain

\* Mutant: the hash is kept before the record is written.
FailsAfterHash == WriteFails /\ chain' = Hash(chain, seq)

\* The number is used up, the hash is not.
SecurityWriteFails == WriteFails /\ UNCHANGED chain

\* What may be on the disk when the power fails.
SecurityFileAfterCrash ==
  IF phase = "sync"
    THEN {Extended(file, SecurityRecord(seq, chain), e) : e \in Reached(written)}
    ELSE {file}

SecuritySyncLine ==
  /\ phase = "sync" /\ phase' = "idle"
  /\ file' = Extended(file, SecurityRecord(seq, chain), written)
  /\ written' = "none"
  /\ chain' = Hash(chain, seq)
  /\ UNCHANGED <<seq, errors>>

\* fsync raises OSError: the record may be there, but its hash is not kept.
SecuritySyncFails ==
  /\ phase = "sync" /\ phase' = "idle"
  /\ file' \in SecurityFileAfterCrash
  /\ written' = "none" /\ errors' = errors \cup {"fsync"}
  /\ UNCHANGED <<seq, chain>>

\* Mutant: the hash is recovered and the number is not.
RestartFromZero(unreadable) ==
  /\ file' \in SecurityFileAfterCrash
  /\ seq' = 0
  /\ chain' = IF EndsReadable(file') /\ ~unreadable THEN LastLine(file').hash ELSE GENESIS_HASH
  /\ errors' = errors \cup Lost(file', unreadable)
  /\ phase' = "idle" /\ written' = "none"

\* _recover_state: from the beginning if the last line cannot be parsed, or the file
\* not be read.
SecurityRestart(unreadable) ==
  /\ file' \in SecurityFileAfterCrash
  /\ IF EndsReadable(file') /\ ~unreadable
       THEN seq' = LastLine(file').seq /\ chain' = LastLine(file').hash
       ELSE seq' = 0 /\ chain' = GENESIS_HASH
  /\ errors' = errors \cup Lost(file', unreadable)
  /\ phase' = "idle" /\ written' = "none"

SecurityNext ==
  \/ SecurityLogEvent \/ SecurityWriteFails
  \/ \E e \in Extent : SecurityWriteLine(e)
  \/ SecuritySyncLine \/ SecuritySyncFails
  \/ \E unreadable \in BOOLEAN : SecurityRestart(unreadable)

SecuritySpec == SecurityInit /\ [][SecurityNext]_securityVars
-----------------------------------------------------------------------------
\* verify_chain: every line parses and has the hash that follows from the line before.
Follows(line, previous) == line.hash = Hash(previous, line.seq)
VerifyChain(lines) ==
  \A i \in 1..Len(lines) :
    /\ lines[i] # Junk
    /\ Follows(lines[i], IF i = 1 THEN GENESIS_HASH ELSE lines[i - 1].hash)

\* Every variable keeps its type, and only one log_event at a time is writing.
SecurityTypeOK ==
  /\ file.lines \in Seq({Junk} \cup [seq : 1..MaxSeq, hash : Seq(1..MaxSeq)])
  /\ file.open \in BOOLEAN
  /\ seq \in 0..MaxSeq
  /\ chain \in Seq(1..MaxSeq)
  /\ phase \in {"idle", "write", "sync"}
  /\ written \in Extent /\ (written # "none" => phase = "sync")
  /\ errors \subseteq {"fsync", "torn", "read"}

\* The numbers of all records in the file increase, and the next number is higher,
\* as in the safety log: through failed writes and fsyncs, torn lines and restarts,
\* until a restart cannot parse the last line or read the file and starts from 0.
SecuritySequenceIncreases ==
  errors \cap {"torn", "read"} = {} =>
    Increasing(file, IF phase = "idle" THEN seq + 1 ELSE seq)

\* Failed writes, short writes and restarts that find a whole or a torn last line
\* leave a chain in which readable neighbours follow from each other, and if
\* nothing is torn, one that verify_chain accepts.  A failed fsync (its record is
\* there, its hash is not kept) and a restart that cannot read the file are excepted.
ChainVerifies ==
  errors \cap {"fsync", "read"} = {} =>
    LET lines == file.lines
    IN /\ \A i \in 2..Len(lines) : lines[i - 1] # Junk /\ lines[i] # Junk =>
            Follows(lines[i], lines[i - 1].hash)
       /\ (\A i \in 1..Len(lines) : lines[i] # Junk) => VerifyChain(lines)

\* A finished line is never changed or removed, whatever is torn after it.
SecurityLinesStay == [][Continues(file, file')]_securityVars
=============================================================================
