CONSTANTS
  Peers = {a, b}
  Nobody = nobody
  MayListen = {a}
  MayConnect = {b}
  MayStop = {b}
  MaxConns = 1
  MaxBytes = 1
  WireLimit = 1
  RecvMax = 1
  RxLimit = 1
  TxLimit = 1
  QueueLimit = 1
SPECIFICATION FairSpec
PROPERTIES NoticesClose Delivered
