CONSTANTS
  Addrs = {a, b, c}
  MaxMisses = 7
  BeaconPolls = 3
  PollsPerBeacon = 3
  MaxLost = 1
  Restarts = 1
  None = None
SPECIFICATION FairSpec
INVARIANT NeverItsOwnPeer
PROPERTIES LivePeerIsKept PeerIsFound
