--------------------------- MODULE ConnectionParts --------------------------
(***************************************************************************)
(* The parts of a connection that keep a state of their own apart from the *)
(* gate: the socket behind an SQL Server link, an Oracle session, a        *)
(* transfer of S3, the large values held for later, and the reader of the  *)
(* server's lines.  They share nothing, so a behaviour is of one of them,  *)
(* named by kind; the variables of the others are 0.                       *)
(***************************************************************************)
EXTENDS Integers, Sequences, FiniteSets

CONSTANTS Fds, Connections, MaxSockets,                                        \* SqlServerLink
          Files, Batch, Chunk, MaxLines, MaxPrinted, MaxRequests,              \* OracleSession
          Configured, NameOrder, Places, Disk, Commands, Contents, DeleteBatch,\* S3Transfer
          LobCacheMax, Results, MaxValues,                                     \* LobCache
          Streams, NL, Limit, IdHead                                           \* LineReader

ASSUME LinkAssumption == Fds \subseteq Nat \ {0} /\ IsFiniteSet(Fds)

\* BATCH is a positive number in a LOAD (load.py); the other two are constants
\* of queries.py.
ASSUME OracleAssumption ==
  /\ Files \subseteq Seq({"ok", "bad", "short"})
  /\ Batch \in Nat \ {0} /\ Chunk \in Nat \ {0} /\ MaxLines \in Nat
  /\ MaxPrinted \in Nat /\ MaxRequests \in Nat

\* A command has a source and a target, every place is a function on keys, and
\* names have an order.
ASSUME TransferAssumption ==
  /\ NameOrder \in Seq({NameOrder[i] : i \in DOMAIN NameOrder})
  /\ \A c \in Commands : c.src \in Places /\ c.dst \in Places
  /\ \A store \in Contents : DOMAIN store = Places
  /\ DeleteBatch \in Nat \ {0}

ASSUME LobAssumption == LobCacheMax \in Nat \ {0}

\* An input is a sequence of bytes.
ASSUME LineAssumption ==
  /\ Limit \in Nat /\ IdHead \in Nat
  /\ \A s \in Streams : s \in Seq({s[i] : i \in DOMAIN s})

VARIABLES
  kind,
  sockets, socketsOpened, before, linkPc, own, linked, severed,
  sessionPc, formats, expected, tracked, skipped, unsure, wanted, previous, step, file,
  sent, table, outcome, line, printed, collected, messages, requests,
  objects, cmd, first, transferPc, keys, handled, cancelled,
  cache, order, given, answers,
  input, fed, taken, eof, linesPc, consumed, got

Link ==
  INSTANCE SqlServerLink WITH opened <- socketsOpened, pc <- linkPc, link <- linked
Oracle == INSTANCE OracleSession WITH pc <- sessionPc
Transfer ==
  INSTANCE S3Transfer WITH store <- objects, pc <- transferPc, n <- handled
Lobs == INSTANCE LobCache
Lines == INSTANCE LineReader WITH pc <- linesPc

linkVars == <<sockets, socketsOpened, before, linkPc, own, linked, severed>>
oracleVars ==
  <<sessionPc, formats, expected, tracked, skipped, unsure, wanted, previous, step, file,
    sent, table, outcome, line, printed, collected, messages, requests>>
transferVars == <<objects, cmd, first, transferPc, keys, handled, cancelled>>
lobsVars == <<cache, order, given, answers>>
linesVars == <<input, fed, taken, eof, linesPc, consumed, got>>
partsVars == <<kind, linkVars, oracleVars, transferVars, lobsVars, linesVars>>
-----------------------------------------------------------------------------
LinkUnused ==
  /\ sockets = 0 /\ socketsOpened = 0 /\ before = 0 /\ linkPc = 0 /\ own = 0
  /\ linked = 0 /\ severed = 0
OracleUnused ==
  /\ sessionPc = 0 /\ formats = 0 /\ expected = 0 /\ tracked = 0 /\ skipped = 0
  /\ unsure = 0 /\ wanted = 0 /\ previous = 0 /\ step = 0 /\ file = 0 /\ sent = 0
  /\ table = 0 /\ outcome = 0 /\ line = 0 /\ printed = 0 /\ collected = 0 /\ messages = 0 /\ requests = 0
TransferUnused ==
  /\ objects = 0 /\ cmd = 0 /\ first = 0 /\ transferPc = 0 /\ keys = 0 /\ handled = 0
  /\ cancelled = 0
LobsUnused == cache = 0 /\ order = 0 /\ given = 0 /\ answers = 0
LinesUnused ==
  /\ input = 0 /\ fed = 0 /\ taken = 0 /\ eof = 0 /\ linesPc = 0 /\ consumed = 0 /\ got = 0
PartsUnused == LinkUnused /\ OracleUnused /\ TransferUnused /\ LobsUnused /\ LinesUnused

PartsInit ==
  \/ kind = "link" /\ Link!Init /\ OracleUnused /\ TransferUnused /\ LobsUnused /\ LinesUnused
  \/ kind = "oracle" /\ Oracle!Init /\ LinkUnused /\ TransferUnused /\ LobsUnused /\ LinesUnused
  \/ kind = "transfer" /\ Transfer!Init /\ LinkUnused /\ OracleUnused /\ LobsUnused /\ LinesUnused
  \/ kind = "lobs" /\ Lobs!Init /\ LinkUnused /\ OracleUnused /\ TransferUnused /\ LinesUnused
  \/ kind = "lines" /\ Lines!Init /\ LinkUnused /\ OracleUnused /\ TransferUnused /\ LobsUnused

PartsNext ==
  /\ UNCHANGED kind
  /\ \/ /\ kind = "link" /\ Link!Next
        /\ UNCHANGED <<oracleVars, transferVars, lobsVars, linesVars>>
     \/ /\ kind = "oracle" /\ Oracle!Next
        /\ UNCHANGED <<linkVars, transferVars, lobsVars, linesVars>>
     \/ /\ kind = "transfer" /\ Transfer!Next
        /\ UNCHANGED <<linkVars, oracleVars, lobsVars, linesVars>>
     \/ /\ kind = "lobs" /\ Lobs!Next
        /\ UNCHANGED <<linkVars, oracleVars, transferVars, linesVars>>
     \/ /\ kind = "lines" /\ Lines!Next
        /\ UNCHANGED <<linkVars, oracleVars, transferVars, lobsVars>>

PartsSpec == PartsInit /\ [][PartsNext]_partsVars
-----------------------------------------------------------------------------
\* The properties of each part, stated in its module.
SeversItsOwn == kind = "link" => Link!SeversItsOwn
SessionLeftClean == kind = "oracle" => Oracle!SessionLeftClean
LoadNamesTheLine == kind = "oracle" => Oracle!LoadNamesTheLine
NothingLost == kind = "transfer" => Transfer!NothingLost
LatestKept == kind = "lobs" => Lobs!LatestKept
LinesAnsweredOnce == kind = "lines" => Lines!LinesAnsweredOnce
=============================================================================
