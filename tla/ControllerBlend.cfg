SPECIFICATION Spec
CONSTANTS
  Standup = 2
  Blend = 2
  MaxTime = 6
PROPERTY BlendReleasesHold
