SPECIFICATION JobSpec
CONSTANTS
  Staff = {s1, s2}
  Drivers = {d1, d2}
  NoDriver = NoDriver
INVARIANTS DeliveredMeansCompleted OncePerMilestone
PROPERTY ForwardOnly
