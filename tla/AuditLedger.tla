---------------------------- MODULE AuditLedger ----------------------------
(***************************************************************************)
(* The audit ledger of a workspace (platform/audit.py): a segment of       *)
(* checksummed entries is filled, closed, anchored outside, verified and   *)
(* finally purged as a whole.  SHA-256 is modelled as an injective         *)
(* function: a digest is the value it digests.  Between any two steps the  *)
(* store may damage a closed segment; what the damage can be ranges from   *)
(* one altered field to a rebuilt chain with consistent checksums.         *)
(***************************************************************************)
EXTENDS Naturals, Sequences

CONSTANTS
    Payloads,       \* event payloads
    MaxEntries      \* bound: entries of the segment

VARIABLES
    segment,        \* the stored AuditSegment
    anchor,         \* the SignedAnchor kept outside, or NoAnchor
    written,        \* the entries as they were appended
    proof           \* the DeletionProof, or NoProof

auditVars == <<segment, anchor, written, proof>>

Genesis == << >>
NoAnchor == [signed |-> FALSE, checksum |-> Genesis]
NoProof == [issued |-> FALSE, checksum |-> Genesis, count |-> 0]

Digest(value) == <<value>>
Checksum(previous, id, seq, payloadHash) == <<previous, id, seq, payloadHash>>

\* append_event: the entry for an event at the end of a chain.
Entry(id, payload, seq, previous) ==
    [id |-> id, payload |-> payload, seq |-> seq, payloadHash |-> Digest(payload),
     previous |-> previous, checksum |-> Checksum(previous, id, seq, Digest(payload))]

-----------------------------------------------------------------------------
(* Verification. *)

\* _entry_failure digests the payload it reads.
PayloadHash(e) == Digest(e.payload)

\* verify_segment: the checksum each entry should have, recomputed from the start.
Recomputed(entries) ==
    LET chain[k \in 0..Len(entries)] ==
            IF k = 0 THEN Genesis
            ELSE Checksum(chain[k - 1], entries[k].id, entries[k].seq, PayloadHash(entries[k]))
    IN  chain

\* _entry_failure is None for entry k.
EntryIntact(entries, k) ==
    LET e == entries[k]
        previous == Recomputed(entries)[k - 1]
    IN  /\ e.seq = k
        /\ \A l \in 1..(k - 1) : entries[l].id # e.id
        /\ e.previous = previous
        /\ e.payloadHash = PayloadHash(e)
        /\ e.checksum = Recomputed(entries)[k]

\* SignedAnchor.verifies; a signature cannot be made for another checksum.
AnchorIgnoringChecksum == anchor.signed
AnchorVerifies == anchor.signed /\ anchor.checksum = segment.final

\* verify_segment with require_external_anchor.
Verified ==
    /\ \A k \in DOMAIN segment.entries : EntryIntact(segment.entries, k)
    /\ Recomputed(segment.entries)[Len(segment.entries)] = segment.final
    /\ AnchorVerifies

-----------------------------------------------------------------------------
\* AuditSegment.open.
AuditInit ==
    /\ segment = [entries |-> << >>, closed |-> FALSE, final |-> Genesis]
    /\ anchor = NoAnchor
    /\ written = << >>
    /\ proof = NoProof

\* append_event.
AppendEvent(id, payload) ==
    LET e == Entry(id, payload, Len(segment.entries) + 1, segment.final)
    IN  /\ ~segment.closed
        /\ \A k \in DOMAIN segment.entries : segment.entries[k].id # id
        /\ Len(segment.entries) < MaxEntries
        /\ segment' = [segment EXCEPT !.entries = Append(@, e), !.final = e.checksum]
        /\ written' = Append(written, e)
        /\ UNCHANGED <<anchor, proof>>

\* AuditSegment.close.
CloseSegment ==
    /\ segment.entries # << >>
    /\ segment' = [segment EXCEPT !.closed = TRUE]
    /\ UNCHANGED <<anchor, written, proof>>

\* SignedAnchor: the signer sees the closed segment before it is damaged.
SignAnchor ==
    /\ segment.closed /\ segment.entries = written /\ ~anchor.signed
    /\ anchor' = [signed |-> TRUE, checksum |-> segment.final]
    /\ UNCHANGED <<segment, written, proof>>

\* purge_segment: only whole, closed, verified and anchored segments.
Purge ==
    /\ segment.closed /\ ~proof.issued
    /\ Verified
    /\ proof' = [issued |-> TRUE, checksum |-> segment.final, count |-> Len(segment.entries)]
    /\ UNCHANGED <<segment, anchor, written>>

Without(s, k) == [j \in 1..(Len(s) - 1) |-> IF j < k THEN s[j] ELSE s[j + 1]]

\* What comes back when a payload is altered, an entry lost or two exchanged.
Altered(entries) ==
    {[entries EXCEPT ![k].payload = p] : k \in DOMAIN entries, p \in Payloads}
    \cup {Without(entries, k) : k \in DOMAIN entries}
    \cup {[entries EXCEPT ![k] = entries[1], ![1] = entries[k]] : k \in DOMAIN entries}

\* A chain of its own for a list of entries, consistent from end to end.
Rebuilt(entries) ==
    LET chain == Recomputed([k \in DOMAIN entries |-> [entries[k] EXCEPT !.seq = k]])
    IN  [k \in DOMAIN entries |-> Entry(entries[k].id, entries[k].payload, k, chain[k - 1])]

\* The store alters the entries, or comes back with a shorter or altered history
\* whose checksums all agree.
Damage ==
    /\ segment.closed /\ segment.entries = written
    /\ UNCHANGED <<anchor, written, proof>>
    /\ \E entries \in Altered(segment.entries) :
          \/ segment' = [segment EXCEPT !.entries = entries]
          \/ /\ entries # << >>
             /\ segment' = [segment EXCEPT !.entries = Rebuilt(entries),
                                           !.final = Rebuilt(entries)[Len(entries)].checksum]

AuditNext ==
    \/ \E id \in 1..(MaxEntries + 1), p \in Payloads : AppendEvent(id, p)
    \/ CloseSegment
    \/ SignAnchor
    \/ Purge
    \/ Damage

AuditSpec == AuditInit /\ [][AuditNext]_auditVars

-----------------------------------------------------------------------------
\* A segment that verifies against its anchor is, entry for entry, the one that
\* was written, whatever the store did to it meanwhile; and a deletion proof is
\* about the whole history: a segment that lost or altered anything is never
\* purged with a proof that hides it.
VerifiedIsWritten ==
    /\ Verified => segment.entries = written
    /\ proof.issued => /\ proof.count = Len(written)
                       /\ proof.checksum = written[Len(written)].checksum
=============================================================================
