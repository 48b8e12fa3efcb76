CONSTANTS
  Peers = {a, b}
  Nobody = nobody
  MayListen = {a, b}
  MayConnect = {a, b}
  MayStop = {}
  MaxConns = 2
  MaxBytes = 1
  WireLimit = 1
  RecvMax = 1
  RxLimit = 1
  TxLimit = 1
  QueueLimit = 1
SPECIFICATION Spec
INVARIANTS OwnSession NoLeak
SYMMETRY PeerSymmetry
