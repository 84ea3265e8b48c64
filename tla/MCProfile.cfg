SPECIFICATION Spec
CONSTANTS
  Positions  <- MCPositions
  Velocities <- MCVelocities
  Speeds     <- MCSpeeds
  Accels     <- MCAccels
INVARIANTS InLimits
PROPERTIES StepsInLimits Finishes
