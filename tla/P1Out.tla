-------------------------------- MODULE P1Out --------------------------------
(***************************************************************************)
(* The P1 output's descriptor (src/p1out.cpp): opened on the first pass,   *)
(* given up for stdout when it cannot be opened, opened anew on the pass   *)
(* after a failure.  The device behind it may be unplugged, work badly and *)
(* come back at any time.  What current a telegram carries is in module    *)
(* ControlLoop; here telegrams are only told apart.                        *)
(***************************************************************************)
EXTENDS Naturals

CONSTANTS
    Telegram,
    NoTelegram,     \* nothing yet, or a part of one
    NoFile,         \* p1out.file is empty
    STDOUT_FILENO,
    Descriptor      \* what open() may return, the lowest one that is free

ASSUME P1Assumption ==
    /\ Descriptor \subseteq Nat /\ STDOUT_FILENO \notin Descriptor
    /\ NoTelegram \notin Telegram

VARIABLES
    m_fd,
    m_connect_errno,    \* whether it is not 0
    m_write_errno,      \* whether it is not 0
    m_p1cache,          \* what GET /api/p1out returns
    descriptors,        \* open descriptors |-> whether their device is there
    device,             \* "good", "poor" or "gone"
    received            \* the last thing that reached the device

p1Vars == <<m_fd, m_connect_errno, m_write_errno, m_p1cache, descriptors, device, received>>

P1TypeOK ==
    /\ m_fd \in {STDOUT_FILENO} \cup DOMAIN descriptors
    /\ DOMAIN descriptors \subseteq Descriptor
    /\ \A fd \in DOMAIN descriptors : descriptors[fd] \in BOOLEAN
    /\ m_connect_errno \in BOOLEAN /\ m_write_errno \in BOOLEAN
    /\ m_p1cache \in Telegram \cup {NoTelegram} /\ received \in Telegram \cup {NoTelegram}
    /\ device \in {"good", "poor", "gone"}

NoDescriptors == [fd \in {} |-> TRUE]

\* m_connect_errno starts as EBADFD, so that the first pass connects.
P1Init ==
    /\ m_fd = STDOUT_FILENO /\ descriptors = NoDescriptors
    /\ m_connect_errno = TRUE /\ m_write_errno = FALSE
    /\ m_p1cache = NoTelegram /\ received = NoTelegram
    /\ device \in {"good", "gone"}

-----------------------------------------------------------------------------
\* Variant: the descriptor is overwritten without being closed.
Forgotten == descriptors

\* The descriptors left when reset() has closed its own.
Closed == [fd \in DOMAIN descriptors \ {m_fd} |-> descriptors[fd]]

reset ==
    /\ descriptors' = Closed /\ m_fd' = STDOUT_FILENO
    /\ UNCHANGED <<m_connect_errno, m_write_errno, m_p1cache, device, received>>

\* The numbers open() may return.
Lowest(S) == {fd \in S : \A other \in S : fd <= other}

\* reconnect().  The settings of a terminal are the device's and left out; when
\* they cannot be made that is logged and not tried again.
reconnect(file) ==
    /\ \/ /\ file = NoFile
          /\ m_fd' = STDOUT_FILENO /\ descriptors' = Closed /\ m_connect_errno' = FALSE
       \/ /\ file # NoFile /\ device \in {"good", "poor"}
          /\ \E fd \in Lowest(Descriptor \ DOMAIN Closed) :
                /\ m_fd' = fd
                /\ descriptors' = [other \in DOMAIN Closed \cup {fd} |-> other = fd \/ Closed[other]]
          /\ m_connect_errno' = FALSE
       \/ /\ file # NoFile /\ device \in {"poor", "gone"}
          /\ m_fd' = STDOUT_FILENO /\ descriptors' = Closed /\ m_connect_errno' = TRUE
    /\ UNCHANGED <<m_write_errno, m_p1cache, device, received>>

\* Variant: only a failed open is tried again.
OnlyUnopened == m_connect_errno

MustReconnect == m_connect_errno \/ m_write_errno

\* Variant: a part of a telegram counts as written.
NegativeOnly(n) == n = "failed"

\* write() took all of it, a part, or nothing.
WriteFailed(n) == n # "all"

\* What write() may do with a descriptor; stdout may be a full disk.
Outcomes ==
    IF m_fd = STDOUT_FILENO THEN {"all", "part", "failed"}
    ELSE IF ~descriptors[m_fd] THEN {"failed"}
    ELSE IF device = "good" THEN {"all"} ELSE {"all", "part", "failed"}

\* The rest of handle(): the telegram is cached for the page, then written.
handle(telegram) ==
    /\ m_p1cache' = telegram
    /\ \E n \in Outcomes :
          /\ m_write_errno' = WriteFailed(n)
          /\ received' = IF m_fd = STDOUT_FILENO \/ n = "failed" THEN received
                         ELSE IF n = "all" THEN telegram ELSE NoTelegram
    /\ UNCHANGED <<m_fd, m_connect_errno, descriptors, device>>

\* External: the device is unplugged, comes back, works badly.  A descriptor
\* does not survive its device.
DeviceChanges ==
    /\ \E d \in {"good", "poor", "gone"} \ {device} :
          /\ device' = d
          /\ descriptors' = [fd \in DOMAIN descriptors |-> descriptors[fd] /\ d # "gone"]
    /\ UNCHANGED <<m_fd, m_connect_errno, m_write_errno, m_p1cache, received>>
=============================================================================
